---- MODULE Spec2Model ----
(***************************************************************************)
(* A model of the client core of snjs: the item manager's reference index  *)
(* and dirty set (lib/services/item_manager.ts) and the key manager state  *)
(* machine embedded in the protocol service (services/protocol_service).   *)
(***************************************************************************)
EXTENDS Integers, Sequences, FiniteSets, TLC

VARIABLES
  items,                \* ItemManager.collection: uuid -> item (payload flags and references)
  referenceMap,         \* ItemManager.referenceMap: uuid -> sequence of referenced uuids
  inverseReferenceMap,  \* ItemManager.inverseReferenceMap: uuid -> sequence of referencing uuids
  keyMode,              \* SNProtocolService.keyMode
  rootKey,              \* SNProtocolService.rootKey (in memory)
  keychain,             \* DeviceInterface keychain value
  wrappedRootKey,       \* storage value StorageKey.WrappedRootKey (nonwrapped domain)
  wrapperKeyParams,     \* storage value StorageKey.RootKeyWrapperKeyParams
  accountKeyParams,     \* storage value StorageKey.RootKeyParams
  lastKeyOp,            \* the key operation that ran last and whether it threw
  lastEncryption,       \* the outcome of the last payloadByEncryptingPayload
  lastDecryption,       \* the arguments and the result of the last batch decryption
  observerPending,      \* the items-key mapping observer has been notified and not yet run
  lastImport,           \* the backup handed to the last importData and what it returned
  lastSyncEvent,        \* the sync event handled last and the items keys it found
  emitting,             \* the emission whose observers the payload manager awaits
  notifying,            \* the notifyObservers loops in flight and the observer each is at
  notified,             \* the observer callbacks invoked so far: <<emission, observer>>
  lastAlternation,      \* the uuid alternation made last and the items it concerned
  lastBackup,           \* the call of createBackupFile made last and its result
  observerRan,          \* parity of the number of runs of the items-key mapping observer
  keyOp,                \* the key operation in flight and the call it awaits
  storagePersistable,   \* SNStorageManager.storagePersistable
  stagesHandled,        \* how many application stages the storage service has handled
  launchPc,             \* SNApplication: the await prepareForLaunch and launch have reached
  awaitDatabaseLoad,    \* the argument of the launch() in flight
  launched,             \* SNApplication.launched
  dealloced,            \* SNApplication.dealloced
  autoSyncInterval,     \* SNApplication.autoSyncInterval: the auto-sync timer runs
  launchResult,         \* how the promise of launch() was settled
  valuesWrapped,        \* SNStorageManager.values: the wrapped entry read from the device
  storageValues,        \* SNStorageManager.values: keys of the unwrapped values in memory
  diskValues,           \* keys of the storage values last written to the device
  rawStorageValue,      \* the storage object last written to the device
  dbPayloads,           \* uuids of the payloads in the device database
  persistencePolicy,    \* SNStorageManager.persistencePolicy
  syncLocked,           \* sync service: syncing is locked
  syncToken,            \* sync service: a sync token is held
  syncBegun,            \* parity of the number of sync requests begun so far
  appOp,                \* the account operation of SNApplication in flight
  lastAppOp             \* the application operation that ended last and how

itemVars == <<items, referenceMap, inverseReferenceMap>>
keyVars == <<keyMode, rootKey, keychain, wrappedRootKey, wrapperKeyParams, accountKeyParams, lastKeyOp>>
decVars == <<lastDecryption, observerPending, lastImport>>
histVars == <<lastAlternation, lastBackup, observerRan, keyOp>>
obsVars == <<emitting, notifying, notified, histVars>>
verVars == <<lastSyncEvent, obsVars>>
launchVars == <<launchPc, awaitDatabaseLoad, launched, dealloced, autoSyncInterval, launchResult,
                valuesWrapped>>
stageVars == <<storagePersistable, stagesHandled, launchVars>>
encVars == <<lastEncryption, decVars, verVars, stageVars>>
appVars == <<storageValues, diskValues, rawStorageValue, dbPayloads, persistencePolicy,
             syncLocked, syncToken, syncBegun, appOp, lastAppOp>>
vars == <<items, referenceMap, inverseReferenceMap,
          keyMode, rootKey, keychain, wrappedRootKey, wrapperKeyParams, accountKeyParams, lastKeyOp,
          lastEncryption,
          lastDecryption, observerPending, lastImport,
          lastSyncEvent, emitting, notifying, notified, lastAlternation, lastBackup, observerRan, keyOp,
          storagePersistable, stagesHandled,
          launchPc, awaitDatabaseLoad, launched, dealloced, autoSyncInterval, launchResult,
          valuesWrapped,
          storageValues, diskValues, rawStorageValue, dbPayloads, persistencePolicy,
          syncLocked, syncToken, syncBegun, appOp, lastAppOp>>

(***************************************************************************)
(* Bounds                                                                  *)
(***************************************************************************)
MaxNote == 2
MaxTag == 1
MaxItemsKey == 1
MaxIndexLen == 2
MaxKey == 2
MaxValue == 1
MaxStoredItemsKey == 2
MaxBatchLen == 2
MaxBackupLen == 3
MaxImports == 2
MaxSyncEvents == 2
MaxObserver == 2
MaxEmission == 3
MaxAlternations == 2
MaxBackups == 1

\* uuids of notes and of tags: a tag's content references notes, a note's none
Notes == 1..MaxNote
Tags == (MaxNote + 1)..(MaxNote + MaxTag)
Uuids == Notes \cup Tags

\* uuids of items keys (content type SN|ItemsKey)
ItemsKeyUuids == (MaxNote + MaxTag + 1)..(MaxNote + MaxTag + MaxItemsKey)

\* uuids of the items keys that reach the collection from the database or the
\* server; the keys the client creates take theirs from ItemsKeyUuids
StoredItemsKeyUuids ==
  (MaxNote + MaxTag + MaxItemsKey + 1)..(MaxNote + MaxTag + MaxItemsKey + MaxStoredItemsKey)

AllItemsKeyUuids == ItemsKeyUuids \cup StoredItemsKeyUuids

(***************************************************************************)
(* Helpers on JS objects used as maps and on arrays                        *)
(***************************************************************************)
\* obj[k] || []
OrEmpty(m, k) == IF k \in DOMAIN m THEN m[k] ELSE <<>>

\* obj[k] = v
Put(m, k, v) == [x \in (DOMAIN m) \cup {k} |-> IF x = k THEN v ELSE m[x]]

\* delete obj[k]
Delete(m, k) == [x \in (DOMAIN m) \ {k} |-> m[x]]

Contains(arr, v) == \E i \in 1..Len(arr) : arr[i] = v

Count(arr, v) == Cardinality({i \in 1..Len(arr) : arr[i] = v})

FirstIndex(arr, v) == CHOOSE i \in 1..Len(arr) : arr[i] = v /\ \A j \in 1..(i - 1) : arr[j] # v

\* removes the first element equal to v, in place
removeFromArray(arr, v) ==
  IF Contains(arr, v)
  THEN LET k == FirstIndex(arr, v)
       IN [i \in 1..(Len(arr) - 1) |-> IF i < k THEN arr[i] ELSE arr[i + 1]]
  ELSE arr

\* removeFromArray(obj[k] || [], v): mutates obj[k] when it exists
RemoveIn(m, k, v) == IF k \in DOMAIN m THEN Put(m, k, removeFromArray(m[k], v)) ELSE m

RECURSIVE SortedSeq(_)
SortedSeq(S) ==
  IF S = {} THEN <<>>
  ELSE LET m == CHOOSE x \in S : \A y \in S : x <= y
       IN <<m>> \o SortedSeq(S \ {m})

(***************************************************************************)
(* Payloads and items                                                      *)
(***************************************************************************)
\* reference lists an item with the given uuid can carry
RefLists(uuid) == IF uuid \in Tags THEN {SortedSeq(S) : S \in SUBSET Notes} ELSE {<<>>}

MakePayload(refs, deleted, dirty, dummy, err) ==
  [references |-> refs, deleted |-> deleted, dirty |-> dirty,
   dummy |-> dummy, errorDecrypting |-> err]

\* payloads of decrypted items and their tombstones: a live payload carries a
\* reference list, a tombstone has no content
RefPayloads(uuid) ==
  {MakePayload(r, FALSE, d, FALSE, FALSE) : r \in RefLists(uuid), d \in BOOLEAN}
  \cup {MakePayload(<<>>, TRUE, d, FALSE, FALSE) : d \in BOOLEAN}

\* payloads without references under every combination of the client flags
FlagPayloads ==
  {MakePayload(<<>>, x, d, m, e) : x \in BOOLEAN, d \in BOOLEAN, m \in BOOLEAN, e \in BOOLEAN}

\* payloads of decrypted items keys, not yet synced (dirty) or synced
ItemsKeyPayloads ==
  {MakePayload(<<>>, FALSE, d, FALSE, FALSE) @@ [isDefault |-> b] : d \in BOOLEAN, b \in BOOLEAN}

discardable(p) == p.deleted /\ ~p.dirty

(***************************************************************************)
(* ItemManager: reference index                                            *)
(***************************************************************************)
Index(rm, irm) == [referenceMap |-> rm, inverseReferenceMap |-> irm]

RECURSIVE establishLoop(_, _, _, _)
establishLoop(idx, uuid, refs, i) ==
  IF i > Len(refs) THEN idx
  ELSE LET ref == refs[i]
           rm == Put(idx.referenceMap, uuid, refs)
           irm == Put(idx.inverseReferenceMap, ref,
                      Append(OrEmpty(idx.inverseReferenceMap, ref), uuid))
       IN establishLoop(Index(rm, irm), uuid, refs, i + 1)

establishReferenceIndex(idx, uuid, refs) == establishLoop(idx, uuid, refs, 1)

RECURSIVE detachDirect(_, _, _, _)
detachDirect(irm, directReferences, uuid, i) ==
  IF i > Len(directReferences) THEN irm
  ELSE detachDirect(RemoveIn(irm, directReferences[i], uuid), directReferences, uuid, i + 1)

RECURSIVE detachInverse(_, _, _, _)
detachInverse(rm, inverseReferences, uuid, i) ==
  IF i > Len(inverseReferences) THEN rm
  ELSE detachInverse(RemoveIn(rm, inverseReferences[i], uuid), inverseReferences, uuid, i + 1)

deestablishReferenceIndexForDeletedItem(idx, uuid) ==
  LET directReferences == OrEmpty(idx.referenceMap, uuid)
      irm1 == detachDirect(idx.inverseReferenceMap, directReferences, uuid, 1)
      rm1 == Delete(idx.referenceMap, uuid)
      inverseReferences == OrEmpty(irm1, uuid)
      rm2 == detachInverse(rm1, inverseReferences, uuid, 1)
      irm2 == Delete(irm1, uuid)
  IN Index(rm2, irm2)

\* the item manager's state as one value
State(its, rm, irm) == [items |-> its, referenceMap |-> rm, inverseReferenceMap |-> irm]

Current == State(items, referenceMap, inverseReferenceMap)

\* setPayloads for a batch of one payload
setPayloads(st, uuid, payload) ==
  LET idx0 == Index(st.referenceMap, st.inverseReferenceMap)
      idx == IF payload.deleted
             THEN deestablishReferenceIndexForDeletedItem(idx0, uuid)
             ELSE establishReferenceIndex(idx0, uuid, payload.references)
  IN State(Put(st.items, uuid, payload), idx.referenceMap, idx.inverseReferenceMap)

onPayloadChange(st, uuid, payload) ==
  LET s1 == setPayloads(st, uuid, payload)
  IN IF discardable(payload)
     THEN State(Delete(s1.items, uuid), s1.referenceMap, s1.inverseReferenceMap)
     ELSE s1

onPayloadInsertion(st, uuid, payload) == setPayloads(st, uuid, payload)

\* PayloadManager.emitPayload: a payload for a uuid already held is delivered
\* to the change observers, a payload for a new uuid to the insertion observers
emitPayload(st, uuid, payload) ==
  IF uuid \in DOMAIN st.items
  THEN onPayloadChange(st, uuid, payload)
  ELSE onPayloadInsertion(st, uuid, payload)

\* ItemMutator.getResult: the mutated payload is dirty
MutatorResult(payload) == [payload EXCEPT !.dirty = TRUE]

\* ItemMutator.setDeleted: content is cleared and deleted is set
MutatorSetDeleted(payload) == [payload EXCEPT !.deleted = TRUE, !.references = <<>>]

\* ItemMutator.removeItemAsRelationship(item): drops the reference to item.uuid
MutatorRemoveItemAsRelationship(payload, uuid) ==
  [payload EXCEPT !.references = SelectSeq(payload.references, LAMBDA r : r # uuid)]

\* changeItem(uuid, mutate) for an item that exists
changeItem(st, uuid, mutated) == emitPayload(st, uuid, MutatorResult(mutated))

RECURSIVE referencingLoop(_, _, _)
referencingLoop(st, referencingIds, i) ==
  IF i > Len(referencingIds) THEN st
  ELSE LET referencingId == referencingIds[i]
       IN IF referencingId \in DOMAIN st.items
          THEN referencingLoop(
                 changeItem(st, referencingId,
                   MutatorRemoveItemAsRelationship(st.items[referencingId], referencingId)),
                 referencingIds, i + 1)
          ELSE referencingLoop(st, referencingIds, i + 1)

setItemToBeDeleted(st, uuid) ==
  LET s1 == changeItem(st, uuid, MutatorSetDeleted(st.items[uuid]))
      referencingIds == OrEmpty(s1.inverseReferenceMap, uuid)
      s2 == referencingLoop(s1, referencingIds, 1)
      idx == deestablishReferenceIndexForDeletedItem(
               Index(s2.referenceMap, s2.inverseReferenceMap), uuid)
  IN State(s2.items, idx.referenceMap, idx.inverseReferenceMap)

\* getDirtyItems that uploads corrupt items too
getDirtyItems_UploadsCorrupt(its) ==
  {u \in DOMAIN its : its[u].dirty /\ ~its[u].dummy}

getDirtyItems(its) ==
  {u \in DOMAIN its :
     its[u].dirty /\ ~its[u].dummy /\ (~its[u].errorDecrypting \/ its[u].deleted)}

\* ItemManager.itemsKeys: the items keys of the collection; a key set to be
\* deleted is no longer among them
itemsKeys(its) == {u \in DOMAIN its : u \in AllItemsKeyUuids /\ ~its[u].deleted}

RECURSIVE setItemsDirty(_, _, _)
setItemsDirty(st, uuids, i) ==
  IF i > Len(uuids) THEN st
  ELSE setItemsDirty(changeItem(st, uuids[i], st.items[uuids[i]]), uuids, i + 1)

\* reencryptItemsKeys that leaves the items keys as they are
reencryptItemsKeys_Skips(st) == st

\* SNProtocolService.reencryptItemsKeys: every items key is marked dirty
reencryptItemsKeys(st) ==
  IF itemsKeys(st.items) # {}
  THEN setItemsDirty(st, SortedSeq(itemsKeys(st.items)), 1)
  ELSE st

IndexWithinBound(st) ==
  \A u \in DOMAIN st.inverseReferenceMap : Len(st.inverseReferenceMap[u]) <= MaxIndexLen

\* a payload arrives from the payload manager (server response, load, import, local change)
EmitPayload(uuid, payload) ==
  LET st == emitPayload(Current, uuid, payload)
  IN /\ IndexWithinBound(st)
     /\ items' = st.items
     /\ referenceMap' = st.referenceMap
     /\ inverseReferenceMap' = st.inverseReferenceMap
     /\ UNCHANGED <<keyVars, encVars, appVars>>

\* setItemDirty(uuid): changeItems with a mutation that changes nothing
SetItemDirty(uuid) ==
  /\ uuid \in DOMAIN items
  /\ LET st == changeItem(Current, uuid, items[uuid])
     IN /\ IndexWithinBound(st)
        /\ items' = st.items
        /\ referenceMap' = st.referenceMap
        /\ inverseReferenceMap' = st.inverseReferenceMap
  /\ UNCHANGED <<keyVars, encVars, appVars>>

SetItemToBeDeleted(uuid) ==
  /\ uuid \in DOMAIN items
  /\ LET st == setItemToBeDeleted(Current, uuid)
     IN /\ IndexWithinBound(st)
        /\ items' = st.items
        /\ referenceMap' = st.referenceMap
        /\ inverseReferenceMap' = st.inverseReferenceMap
  /\ UNCHANGED <<keyVars, encVars, appVars>>

(***************************************************************************)
(* Key manager (SNProtocolService): key mode, root key, keychain, storage  *)
(***************************************************************************)
Keys == 1..MaxKey

\* undefined root key, empty keychain, absent key params
NoKey == 0

\* storage holds no wrapped root key
NoWrapped == [key |-> NoKey, by |-> NoKey]

KeyModes == {"RootKeyNone", "RootKeyOnly", "RootKeyPlusWrapper", "WrapperOnly"}

KeyState(mode, rk, kc, wrk, wkp, akp) ==
  [keyMode |-> mode, rootKey |-> rk, keychain |-> kc, wrappedRootKey |-> wrk,
   wrapperKeyParams |-> wkp, accountKeyParams |-> akp]

CurrentKeys ==
  KeyState(keyMode, rootKey, keychain, wrappedRootKey, wrapperKeyParams, accountKeyParams)

\* the outcome of a key operation: the state it leaves, whether it threw and
\* whether it reached its call of reencryptItemsKeys
Returned(st) == [state |-> st, threw |-> FALSE, reencrypted |-> FALSE]
Thrown(st) == [state |-> st, threw |-> TRUE, reencrypted |-> FALSE]
Reencrypted(res) == [res EXCEPT !.reencrypted = ~res.threw]

\* initialize: the key mode recomputed from the persisted values
initialize(wrk, wkp, akp) ==
  LET hasWrapper == wkp # NoKey
      hasRootKey == wrk # NoWrapped \/ akp # NoKey
  IN IF hasWrapper /\ hasRootKey THEN "RootKeyPlusWrapper"
     ELSE IF hasWrapper /\ ~hasRootKey THEN "WrapperOnly"
     ELSE IF ~hasWrapper /\ hasRootKey THEN "RootKeyOnly"
     ELSE "RootKeyNone"

\* payloadByEncryptingPayload of the root key with the wrapping key
wrap(key, wrappingKey) == [key |-> key, by |-> wrappingKey]

\* saveRootKeyToKeychain
saveRootKeyToKeychain(st) ==
  IF st.rootKey = NoKey THEN Thrown(st)
  ELSE IF st.keyMode # "RootKeyOnly" THEN Thrown(st)
  ELSE Returned([st EXCEPT !.keychain = st.rootKey])

\* wrapAndPersistRootKey: reading the persistable value of an undefined root key throws
wrapAndPersistRootKey(st, wrappingKey) ==
  IF st.rootKey = NoKey THEN Thrown(st)
  ELSE Returned([st EXCEPT !.wrappedRootKey = wrap(st.rootKey, wrappingKey)])

\* setNewRootKeyWrapper that wraps again when the root key is already wrapped
setNewRootKeyWrapper_Rewraps(st, wrappingKey, keyParams) ==
  IF st.keyMode = "WrapperOnly" THEN Thrown(st)
  ELSE LET mode == IF st.keyMode = "RootKeyNone" THEN "WrapperOnly" ELSE "RootKeyPlusWrapper"
           s1 == [st EXCEPT !.keyMode = mode, !.keychain = NoKey]
           s2 == IF mode = "WrapperOnly"
                 THEN Reencrypted(Returned([s1 EXCEPT !.rootKey = wrappingKey]))
                 ELSE wrapAndPersistRootKey(s1, wrappingKey)
       IN IF s2.threw THEN s2
          ELSE [s2 EXCEPT !.state = [s2.state EXCEPT !.wrapperKeyParams = keyParams]]

setNewRootKeyWrapper(st, wrappingKey, keyParams) ==
  IF st.keyMode \notin {"RootKeyNone", "RootKeyOnly"} THEN Thrown(st)
  ELSE LET mode == IF st.keyMode = "RootKeyNone" THEN "WrapperOnly" ELSE "RootKeyPlusWrapper"
           s1 == [st EXCEPT !.keyMode = mode, !.keychain = NoKey]
           s2 == IF mode = "WrapperOnly"
                 THEN Reencrypted(Returned([s1 EXCEPT !.rootKey = wrappingKey]))
                 ELSE wrapAndPersistRootKey(s1, wrappingKey)
       IN IF s2.threw THEN s2
          ELSE [s2 EXCEPT !.state = [s2.state EXCEPT !.wrapperKeyParams = keyParams]]

removeRootKeyWrapper(st) ==
  IF st.keyMode \notin {"WrapperOnly", "RootKeyPlusWrapper"} THEN Thrown(st)
  ELSE LET s1 == IF st.keyMode = "WrapperOnly"
                 THEN [st EXCEPT !.keyMode = "RootKeyNone", !.rootKey = NoKey]
                 ELSE [st EXCEPT !.keyMode = "RootKeyOnly"]
           s2 == [s1 EXCEPT !.wrappedRootKey = NoWrapped, !.wrapperKeyParams = NoKey]
       IN IF s2.keyMode = "RootKeyOnly" THEN saveRootKeyToKeychain(s2) ELSE Returned(s2)

\* setNewRootKey that forgets the wrapper when an account is added to a passcode
keyModeForNewRootKey_NoWrapper(mode) ==
  IF mode = "WrapperOnly" THEN "RootKeyOnly"
  ELSE IF mode = "RootKeyNone" THEN "RootKeyOnly"
  ELSE mode

\* the key mode setNewRootKey moves to
keyModeForNewRootKey(mode) ==
  IF mode = "WrapperOnly" THEN "RootKeyPlusWrapper"
  ELSE IF mode = "RootKeyNone" THEN "RootKeyOnly"
  ELSE mode

setNewRootKey(st, key, keyParams, wrappingKey) ==
  IF keyParams = NoKey THEN Thrown(st)
  ELSE IF st.rootKey = key THEN Thrown(st)
  ELSE LET s1 == [st EXCEPT !.keyMode = keyModeForNewRootKey(st.keyMode),
                            !.rootKey = key,
                            !.accountKeyParams = keyParams]
           s2 == IF s1.keyMode = "RootKeyOnly" THEN saveRootKeyToKeychain(s1)
                 ELSE IF s1.keyMode = "RootKeyPlusWrapper"
                      THEN IF wrappingKey = NoKey THEN Thrown(s1)
                           ELSE wrapAndPersistRootKey(s1, wrappingKey)
                      ELSE Returned(s1)
       IN Reencrypted(s2)

\* clearLocalKeyState that leaves the account key params in storage
clearLocalKeyState_KeepsParams(st) ==
  Returned(KeyState("RootKeyNone", NoKey, NoKey, NoWrapped, NoKey, st.accountKeyParams))

clearLocalKeyState(st) ==
  Returned(KeyState("RootKeyNone", NoKey, NoKey, NoWrapped, NoKey, NoKey))

\* unwrapRootKey that loads the stored key whatever key is supplied
unwrapRootKey_IgnoresFailure(st, wrappingKey) ==
  IF st.keyMode = "WrapperOnly" THEN Returned([st EXCEPT !.rootKey = wrappingKey])
  ELSE IF st.keyMode # "RootKeyPlusWrapper" THEN Thrown(st)
  ELSE IF st.wrappedRootKey = NoWrapped THEN Thrown(st)
  ELSE Returned([st EXCEPT !.rootKey = st.wrappedRootKey.key])

\* decrypting the stored wrapped root key succeeds with the key that wrapped it
unwrapRootKey(st, wrappingKey) ==
  IF st.keyMode = "WrapperOnly" THEN Returned([st EXCEPT !.rootKey = wrappingKey])
  ELSE IF st.keyMode # "RootKeyPlusWrapper" THEN Thrown(st)
  ELSE IF st.wrappedRootKey = NoWrapped \/ st.wrappedRootKey.by # wrappingKey THEN Thrown(st)
  ELSE Returned([st EXCEPT !.rootKey = st.wrappedRootKey.key])

(***************************************************************************)
(* Payload generation and encryption (payloads/generator, protocol service) *)
(***************************************************************************)
MaxPayloadFields ==
  {"uuid", "content_type", "items_key_id", "enc_item_key", "content", "created_at",
   "updated_at", "deleted", "auth_hash", "auth_params", "dirty", "dirtiedDate",
   "errorDecrypting", "errorDecryptingValueChanged", "waitingForKey", "dummy",
   "lastSyncBegan", "lastSyncEnd"}

EncryptionParametersFields ==
  {"uuid", "items_key_id", "enc_item_key", "content", "auth_hash",
   "errorDecrypting", "errorDecryptingValueChanged", "waitingForKey"}

FilePayloadFields ==
  {"uuid", "content_type", "items_key_id", "enc_item_key", "content", "created_at",
   "updated_at", "auth_hash"}

StoragePayloadFields ==
  {"uuid", "content_type", "items_key_id", "enc_item_key", "content", "created_at",
   "updated_at", "deleted", "auth_hash", "auth_params", "dirty", "dirtiedDate",
   "errorDecrypting", "waitingForKey"}

ServerPayloadFields ==
  {"uuid", "content_type", "items_key_id", "enc_item_key", "content", "created_at",
   "updated_at", "deleted", "auth_hash"}

EncryptionIntents ==
  {"Sync", "SyncDecrypted", "LocalStorageEncrypted", "LocalStorageDecrypted",
   "LocalStoragePreferEncrypted", "FileEncrypted", "FileDecrypted", "FilePreferEncrypted"}

payloadFieldsForIntent(intent) ==
  IF intent \in {"FileEncrypted", "FileDecrypted", "FilePreferEncrypted"}
  THEN FilePayloadFields
  ELSE IF intent \in {"LocalStoragePreferEncrypted", "LocalStorageDecrypted",
                      "LocalStorageEncrypted"}
  THEN StoragePayloadFields
  ELSE ServerPayloadFields

\* pickByCopy(object, fields): the listed fields the object defines
pickByCopy(object, fields) == [f \in (DOMAIN object) \cap fields |-> object[f]]

\* deepMerge(target, override): the override's fields replace the target's
deepMerge(target, override) ==
  [f \in (DOMAIN target) \cup (DOMAIN override) |->
     IF f \in DOMAIN override THEN override[f] ELSE target[f]]

CreatePayload(object, fields, override) == deepMerge(pickByCopy(object, fields), override)

CreateIntentPayloadFromObject(object, intent, override) ==
  CreatePayload(object, payloadFieldsForIntent(intent), override)

CreateEncryptionParameters(raw) == pickByCopy(raw, EncryptionParametersFields)

\* the intents of the intent->format table that take no key
isDecryptedIntent(intent) ==
  intent \in {"SyncDecrypted", "LocalStorageDecrypted", "FileDecrypted"}

\* the intents of the intent->format table that require a key
intentRequiresEncryption(intent) ==
  intent \in {"Sync", "LocalStorageEncrypted", "FileEncrypted"}

\* no key: an absent key argument, an undefined root key, no default items key
NoEncKey == [kind |-> "none", id |-> 0]

RootEncKey(k) == [kind |-> "root", id |-> k]
ItemsEncKey(u) == [kind |-> "items", id |-> u]

\* content of a payload: a bare object, or a string in one of the string formats
Content(format, by) == [format |-> format, by |-> by]

\* PurePayload.format: absent content has no format
formatOf(payload) ==
  IF "content" \in DOMAIN payload THEN payload["content"].format ELSE "none"

contentTypeUsesRootKeyEncryption(contentType) ==
  contentType \in {"SN|ItemsKey", "SN|EncryptedStorage"}

getDefaultItemsKey(its) ==
  IF Cardinality(itemsKeys(its)) = 1
  THEN ItemsEncKey(CHOOSE u \in itemsKeys(its) : TRUE)
  ELSE IF \E u \in itemsKeys(its) : its[u].isDefault
  THEN ItemsEncKey(SortedSeq({u \in itemsKeys(its) : its[u].isDefault})[1])
  ELSE NoEncKey

\* keyToUseForEncryptionOfPayload: the key, or a throw when the root key is
\* required and missing
keyToUseForEncryptionOfPayload(payload, intent, rk, its) ==
  IF contentTypeUsesRootKeyEncryption(payload["content_type"])
  THEN IF rk = NoKey
       THEN [threw |-> intentRequiresEncryption(intent), key |-> NoEncKey]
       ELSE [threw |-> FALSE, key |-> RootEncKey(rk)]
  ELSE [threw |-> FALSE, key |-> getDefaultItemsKey(its)]

\* payloadContentFormatForIntent that prefers plaintext when it may
payloadContentFormatForIntent_PrefersDecrypted(intent, key) ==
  IF key = NoEncKey \/ intent \in {"LocalStoragePreferEncrypted", "FilePreferEncrypted"}
  THEN IF intent \in {"LocalStorageDecrypted", "LocalStoragePreferEncrypted",
                      "FileDecrypted", "FilePreferEncrypted"}
       THEN "DecryptedBareObject"
       ELSE IF intent = "SyncDecrypted" THEN "DecryptedBase64String"
       ELSE "throw"
  ELSE IF intent \in {"Sync", "FileEncrypted", "FilePreferEncrypted",
                      "LocalStorageEncrypted", "LocalStoragePreferEncrypted"}
       THEN "EncryptedString"
       ELSE "throw"

payloadContentFormatForIntent(intent, key) ==
  IF key = NoEncKey
  THEN IF intent \in {"LocalStorageDecrypted", "LocalStoragePreferEncrypted",
                      "FileDecrypted", "FilePreferEncrypted"}
       THEN "DecryptedBareObject"
       ELSE IF intent = "SyncDecrypted" THEN "DecryptedBase64String"
       ELSE "throw"
  ELSE IF intent \in {"Sync", "FileEncrypted", "FilePreferEncrypted",
                      "LocalStorageEncrypted", "LocalStoragePreferEncrypted"}
       THEN "EncryptedString"
       ELSE "throw"

\* SNProtocolOperator.generateEncryptedParameters; the versioned operators
\* produce the encrypted string with its key id and encrypted item key
generateEncryptedParameters(payload, format, key) ==
  IF format = "DecryptedBareObject"
  THEN CreateEncryptionParameters([content |-> payload["content"]])
  ELSE IF format = "DecryptedBase64String"
  THEN CreateEncryptionParameters([content |-> Content("DecryptedBase64String", NoEncKey)])
  ELSE CreateEncryptionParameters(
         [uuid |-> payload["uuid"],
          items_key_id |-> key,
          enc_item_key |-> key,
          content |-> Content("EncryptedString", key)])

EncryptionNotRun == [status |-> "none", payload |-> <<>>]
EncryptionThrew == [status |-> "threw", payload |-> <<>>]
EncryptionReturned(payload) == [status |-> "returned", payload |-> payload]

\* payloadByEncryptingPayload that encrypts corrupt payloads like any other
payloadByEncryptingPayload_EncryptsCorrupt(payload, intent, key, rk, its) ==
  LET lookup == IF key = NoEncKey /\ ~isDecryptedIntent(intent)
                THEN keyToUseForEncryptionOfPayload(payload, intent, rk, its)
                ELSE [threw |-> FALSE, key |-> key]
      format == payloadContentFormatForIntent(intent, lookup.key)
  IN IF lookup.threw THEN EncryptionThrew
     ELSE IF lookup.key = NoEncKey /\ intentRequiresEncryption(intent) THEN EncryptionThrew
     ELSE IF formatOf(payload) # "DecryptedBareObject" THEN EncryptionThrew
     ELSE IF "content" \notin DOMAIN payload THEN EncryptionThrew
     ELSE IF "uuid" \notin DOMAIN payload THEN EncryptionThrew
     ELSE IF format = "throw" THEN EncryptionThrew
     ELSE EncryptionReturned(
            CreateIntentPayloadFromObject(
              payload, intent, generateEncryptedParameters(payload, format, lookup.key)))

payloadByEncryptingPayload(payload, intent, key, rk, its) ==
  LET lookup == IF key = NoEncKey /\ ~isDecryptedIntent(intent)
                THEN keyToUseForEncryptionOfPayload(payload, intent, rk, its)
                ELSE [threw |-> FALSE, key |-> key]
      format == payloadContentFormatForIntent(intent, lookup.key)
  IN IF "errorDecrypting" \in DOMAIN payload /\ payload["errorDecrypting"]
     THEN EncryptionReturned(payload)
     ELSE IF lookup.threw THEN EncryptionThrew
     ELSE IF lookup.key = NoEncKey /\ intentRequiresEncryption(intent) THEN EncryptionThrew
     ELSE IF formatOf(payload) # "DecryptedBareObject" THEN EncryptionThrew
     ELSE IF "content" \notin DOMAIN payload THEN EncryptionThrew
     ELSE IF "uuid" \notin DOMAIN payload THEN EncryptionThrew
     ELSE IF format = "throw" THEN EncryptionThrew
     ELSE EncryptionReturned(
            CreateIntentPayloadFromObject(
              payload, intent, generateEncryptedParameters(payload, format, lookup.key)))

\* the client-side flags a max payload can carry
ClientFlags ==
  [dirty |-> TRUE, dirtiedDate |-> TRUE, lastSyncBegan |-> TRUE, lastSyncEnd |-> TRUE,
   waitingForKey |-> TRUE, errorDecryptingValueChanged |-> TRUE, dummy |-> TRUE]

\* max payloads handed to encryption: notes and items keys, with a bare
\* object, an encrypted string or no content, with or without the client
\* flags, flagged errorDecrypting or not
MaxPayloads ==
  {deepMerge(deepMerge(deepMerge(
      [uuid |-> 1, content_type |-> ct, created_at |-> TRUE, updated_at |-> TRUE,
       deleted |-> FALSE],
      c), f), e) :
     ct \in {"Note", "SN|ItemsKey"},
     c \in {<<>>, [content |-> Content("DecryptedBareObject", NoEncKey)],
            [content |-> Content("EncryptedString", RootEncKey(1)),
             enc_item_key |-> RootEncKey(1)]},
     f \in {<<>>, ClientFlags},
     e \in {<<>>, [errorDecrypting |-> TRUE]}}

\* the key argument: absent, or a root key the caller holds
KeyArguments == {NoEncKey, RootEncKey(1)}

\* the arguments and the result of a call of payloadByEncryptingPayload
Encryption(payload, intent, key, result) ==
  [payload |-> payload, intent |-> intent, key |-> key, result |-> result]

NoEncryption == Encryption(<<>>, "none", NoEncKey, EncryptionNotRun)

PayloadByEncryptingPayload(payload, intent, key) ==
  /\ lastEncryption' =
       Encryption(payload, intent, key,
                  payloadByEncryptingPayload(payload, intent, key, rootKey, items))
  /\ UNCHANGED <<itemVars, keyVars, decVars, verVars, stageVars, appVars>>

KeysBecome(st) ==
  /\ keyMode' = st.keyMode
  /\ rootKey' = st.rootKey
  /\ keychain' = st.keychain
  /\ wrappedRootKey' = st.wrappedRootKey
  /\ wrapperKeyParams' = st.wrapperKeyParams
  /\ accountKeyParams' = st.accountKeyParams

\* the collection after the operation: its items keys are dirty when the
\* operation reached reencryptItemsKeys
ItemsBecome(res) ==
  LET st == IF res.reencrypted THEN reencryptItemsKeys(Current) ELSE Current
  IN /\ items' = st.items
     /\ referenceMap' = st.referenceMap
     /\ inverseReferenceMap' = st.inverseReferenceMap

Outcome(res) == IF res.threw THEN "throw" ELSE "ok"

SetNewRootKeyWrapper(wrappingKey, keyParams) ==
  LET res == setNewRootKeyWrapper(CurrentKeys, wrappingKey, keyParams)
  IN /\ KeysBecome(res.state)
     /\ lastKeyOp' = <<"setNewRootKeyWrapper", Outcome(res)>>
     /\ ItemsBecome(res)
     /\ UNCHANGED <<encVars, appVars>>

RemoveRootKeyWrapper ==
  LET res == removeRootKeyWrapper(CurrentKeys)
  IN /\ KeysBecome(res.state)
     /\ lastKeyOp' = <<"removeRootKeyWrapper", Outcome(res)>>
     /\ ItemsBecome(res)
     /\ UNCHANGED <<encVars, appVars>>

SetNewRootKey(key, keyParams, wrappingKey) ==
  LET res == setNewRootKey(CurrentKeys, key, keyParams, wrappingKey)
  IN /\ KeysBecome(res.state)
     /\ lastKeyOp' = <<"setNewRootKey", Outcome(res)>>
     /\ ItemsBecome(res)
     /\ UNCHANGED <<encVars, appVars>>

ClearLocalKeyState ==
  LET res == clearLocalKeyState(CurrentKeys)
  IN /\ KeysBecome(res.state)
     /\ lastKeyOp' = <<"clearLocalKeyState", Outcome(res)>>
     /\ ItemsBecome(res)
     /\ UNCHANGED <<encVars, appVars>>

UnwrapRootKey(wrappingKey) ==
  LET res == unwrapRootKey(CurrentKeys, wrappingKey)
  IN /\ KeysBecome(res.state)
     /\ lastKeyOp' = <<"unwrapRootKey", Outcome(res)>>
     /\ ItemsBecome(res)
     /\ UNCHANGED <<encVars, appVars>>

\* the application is started again: a new protocol service holds no root key,
\* initialize() recomputes the key mode from storage and, in RootKeyOnly, loads
\* the root key from the keychain; the collection is empty until the database
\* payloads are emitted
(***************************************************************************)
(* Key operations await by await                                           *)
(***************************************************************************)
\* a key operation in flight: its name, the call it awaits, its arguments
KeyOp(name, awaits, wrappingKey, keyParams) ==
  [name |-> name, awaits |-> awaits, wrappingKey |-> wrappingKey, keyParams |-> keyParams]

NoKeyOp == KeyOp("none", "nothing", NoKey, NoKey)

\* the operation has run up to the await of a call, or up to its end
Awaits(st, call) == [state |-> st, awaits |-> call, threw |-> FALSE, reencrypted |-> FALSE]
Ends(st) == Awaits(st, "nothing")
Throws(st) == [state |-> st, awaits |-> "nothing", threw |-> TRUE, reencrypted |-> FALSE]

\* setNewRootKeyWrapper up to its first await: the key mode is assigned
\* before the keychain is cleared
setNewRootKeyWrapperBegins(st) ==
  IF st.keyMode = "RootKeyNone"
  THEN Awaits([st EXCEPT !.keyMode = "WrapperOnly", !.keychain = NoKey], "clearKeychainValue")
  ELSE IF st.keyMode = "RootKeyOnly"
  THEN Awaits([st EXCEPT !.keyMode = "RootKeyPlusWrapper", !.keychain = NoKey],
              "clearKeychainValue")
  ELSE Throws(st)

\* setNewRootKeyWrapper from one await to the next
setNewRootKeyWrapperContinues(st, op) ==
  IF op.awaits = "clearKeychainValue"
  THEN IF st.keyMode = "WrapperOnly"
       THEN [Awaits([st EXCEPT !.rootKey = op.wrappingKey], "reencryptItemsKeys")
               EXCEPT !.reencrypted = TRUE]
       ELSE IF wrapAndPersistRootKey(st, op.wrappingKey).threw THEN Throws(st)
       ELSE Awaits(wrapAndPersistRootKey(st, op.wrappingKey).state, "wrapAndPersistRootKey")
  ELSE IF op.awaits \in {"reencryptItemsKeys", "wrapAndPersistRootKey"}
  THEN Awaits([st EXCEPT !.wrapperKeyParams = op.keyParams], "setValue")
  ELSE Ends(st)

\* removeRootKeyWrapper up to its first await: the key mode is assigned
\* before the values are removed
removeRootKeyWrapperBegins(st) ==
  IF st.keyMode = "WrapperOnly"
  THEN Awaits([st EXCEPT !.keyMode = "RootKeyNone", !.rootKey = NoKey,
                         !.wrappedRootKey = NoWrapped], "removeWrappedRootKey")
  ELSE IF st.keyMode = "RootKeyPlusWrapper"
  THEN Awaits([st EXCEPT !.keyMode = "RootKeyOnly", !.wrappedRootKey = NoWrapped],
              "removeWrappedRootKey")
  ELSE Throws(st)

removeRootKeyWrapperContinues(st, op) ==
  IF op.awaits = "removeWrappedRootKey"
  THEN Awaits([st EXCEPT !.wrapperKeyParams = NoKey], "removeRootKeyWrapperKeyParams")
  ELSE IF op.awaits = "removeRootKeyWrapperKeyParams" /\ st.keyMode = "RootKeyOnly"
  THEN IF saveRootKeyToKeychain(st).threw THEN Throws(st)
       ELSE Awaits(saveRootKeyToKeychain(st).state, "saveRootKeyToKeychain")
  ELSE Ends(st)

\* clearLocalKeyState up to its first await
clearLocalKeyStateBegins(st) == Awaits([st EXCEPT !.keychain = NoKey], "clearKeychainValue")

\* clearLocalKeyState from one await to the next: the key mode is assigned
\* after the values are removed
clearLocalKeyStateContinues(st, op) ==
  IF op.awaits = "clearKeychainValue"
  THEN Awaits([st EXCEPT !.wrappedRootKey = NoWrapped], "removeWrappedRootKey")
  ELSE IF op.awaits = "removeWrappedRootKey"
  THEN Awaits([st EXCEPT !.wrapperKeyParams = NoKey], "removeRootKeyWrapperKeyParams")
  ELSE IF op.awaits = "removeRootKeyWrapperKeyParams"
  THEN Awaits([st EXCEPT !.accountKeyParams = NoKey], "removeRootKeyParams")
  ELSE IF op.awaits = "removeRootKeyParams"
  THEN Awaits([st EXCEPT !.keyMode = "RootKeyNone", !.rootKey = NoKey],
              "notifyObserversOfKeyChange")
  ELSE Ends(st)

keyOpBegins(st, name) ==
  IF name = "setNewRootKeyWrapper" THEN setNewRootKeyWrapperBegins(st)
  ELSE IF name = "removeRootKeyWrapper" THEN removeRootKeyWrapperBegins(st)
  ELSE clearLocalKeyStateBegins(st)

keyOpContinues(st, op) ==
  IF op.name = "setNewRootKeyWrapper" THEN setNewRootKeyWrapperContinues(st, op)
  ELSE IF op.name = "removeRootKeyWrapper" THEN removeRootKeyWrapperContinues(st, op)
  ELSE clearLocalKeyStateContinues(st, op)

\* the operation after a step: in flight while it awaits a call
KeyOpBecomes(op, res) ==
  /\ KeysBecome(res.state)
  /\ ItemsBecome(res)
  /\ keyOp' = (IF res.awaits = "nothing" THEN NoKeyOp ELSE [op EXCEPT !.awaits = res.awaits])
  /\ lastKeyOp' = (IF res.awaits = "nothing" THEN <<op.name, Outcome(res)>> ELSE lastKeyOp)
  /\ UNCHANGED <<lastEncryption, decVars, lastSyncEvent, emitting, notifying, notified,
                 lastAlternation, lastBackup, observerRan, stageVars, appVars>>

\* a key operation is called and runs up to its first await
KeyOpBegins(name, wrappingKey, keyParams) ==
  /\ keyOp = NoKeyOp
  /\ KeyOpBecomes(KeyOp(name, "nothing", wrappingKey, keyParams),
                  keyOpBegins(CurrentKeys, name))

\* the call the key operation awaits returns: it runs up to its next await
KeyOpContinues ==
  /\ keyOp # NoKeyOp
  /\ KeyOpBecomes(keyOp, keyOpContinues(CurrentKeys, keyOp))

Initialize ==
  /\ keyMode' = initialize(wrappedRootKey, wrapperKeyParams, accountKeyParams)
  /\ rootKey' = (IF keyMode' = "RootKeyOnly" THEN keychain ELSE NoKey)
  /\ lastKeyOp' = <<"initialize", "ok">>
  /\ items' = <<>>
  /\ referenceMap' = <<>>
  /\ inverseReferenceMap' = <<>>
  /\ UNCHANGED <<keychain, wrappedRootKey, wrapperKeyParams, accountKeyParams>>
  /\ UNCHANGED <<encVars, appVars>>

(***************************************************************************)
(* Storage manager (SNStorageManager): values, device copy, database       *)
(***************************************************************************)
ValueKeys == 1..MaxValue

\* the storage service's state as one value: its values, the device's copy,
\* and the root key its protocol service holds
StorageState(values, disk, raw, db, policy, persistable, key) ==
  [values |-> values, disk |-> disk, raw |-> raw, db |-> db, policy |-> policy,
   persistable |-> persistable, key |-> key]

CurrentStorage ==
  StorageState(storageValues, diskValues, rawStorageValue, dbPayloads, persistencePolicy,
               storagePersistable, rootKey)

\* getRawStorageValue returns nothing: no storage object has been written
NoRawValue == <<>>

\* generatePersistenceValue: a copy of the values object whose wrapped entry
\* is the unwrapped values as a storage payload, encrypted when the protocol
\* service finds a key; the copy keeps the unwrapped entry
generatePersistenceValue(ss) ==
  LET valuesToWrap == ss.values
      payload == [uuid |-> "storage", content_type |-> "SN|EncryptedStorage",
                  content |-> Content("DecryptedBareObject", NoEncKey)]
      encryptedPayload ==
        payloadByEncryptingPayload(payload, "LocalStoragePreferEncrypted", NoEncKey,
                                   ss.key, <<>>).payload
  IN [wrapped |-> [payload |-> encryptedPayload, values |-> valuesToWrap],
      unwrapped |-> ss.values]

\* the application stages in the order prepareForLaunch and launch hand them
\* to the services
ApplicationStages ==
  <<"PreparingForLaunch_0", "ReadyForLaunch_05", "StorageDecrypted_09", "Launched_10",
    "LoadingDatabase_11", "LoadedDatabase_12">>

\* handleApplicationStage that takes any stage for the launch
handleApplicationStage_AnyStage(ss, stage) == [ss EXCEPT !.persistable = TRUE]

\* handleApplicationStage: storage is persistable from the Launched stage on
handleApplicationStage(ss, stage) ==
  IF stage = "Launched_10" THEN [ss EXCEPT !.persistable = TRUE] ELSE ss

\* repersistToDisk that writes before the launch too
repersistToDisk_BeforeLaunch(ss) ==
  IF ss.policy = "Ephemeral" THEN ss
  ELSE [ss EXCEPT !.disk = ss.values, !.raw = generatePersistenceValue(ss)]

\* repersistToDisk: nothing is written before storage is persistable, and an
\* ephemeral session writes nothing
repersistToDisk(ss) ==
  IF ~ss.persistable THEN ss
  ELSE IF ss.policy = "Ephemeral" THEN ss
  ELSE [ss EXCEPT !.disk = ss.values, !.raw = generatePersistenceValue(ss)]

setValue(ss, key) == repersistToDisk([ss EXCEPT !.values = @ \cup {key}])

removeValue(ss, key) == repersistToDisk([ss EXCEPT !.values = @ \ {key}])

\* clear that leaves the values in memory
clear_KeepsValues(ss) == repersistToDisk(ss)

\* clear: the values object is replaced by the default, empty one
clear(ss) == repersistToDisk([ss EXCEPT !.values = {}])

deletePayloads(ss, uuids) == [ss EXCEPT !.db = @ \ uuids]

\* savePayloads of the payloads of uuids as the collection its holds them: a
\* discardable payload (one the collection no longer holds) is removed
savePayloads(ss, its, uuids) ==
  IF ss.policy = "Ephemeral" THEN ss
  ELSE LET deleted == {u \in uuids : u \notin DOMAIN its \/ discardable(its[u])}
       IN [ss EXCEPT !.db = (@ \ deleted) \cup (uuids \ deleted)]

clearAllPayloads(ss) == [ss EXCEPT !.db = {}]

clearAllData(ss) == clearAllPayloads(clear(ss))

setPersistencePolicy(ss, policy) ==
  LET s1 == [ss EXCEPT !.policy = policy]
  IN IF policy = "Ephemeral" THEN clearAllPayloads([s1 EXCEPT !.disk = {}, !.raw = NoRawValue]) ELSE s1

(***************************************************************************)
(* Application (SNApplication): passcode, account and sign-out operations  *)
(***************************************************************************)
\* the services' state as one value, with the outcome of the operation so
\* far: whether it threw and which of the other services it called
AppState(keys, st, ss, token, locked, threw, calls) ==
  [keys |-> keys, st |-> st, ss |-> ss, token |-> token, locked |-> locked,
   threw |-> threw, calls |-> calls]

CurrentApp == AppState(CurrentKeys, Current, CurrentStorage, syncToken, syncLocked, FALSE, {})

\* a key operation run by the application: its writes of storage values
\* repersist the values, and a throw ends the application operation
applyKeyOp(a, res) ==
  [a EXCEPT !.keys = res.state,
            !.st = IF res.reencrypted THEN reencryptItemsKeys(a.st) ELSE a.st,
            !.ss = repersistToDisk([a.ss EXCEPT !.key = res.state.rootKey]),
            !.threw = res.threw]

hasPasscode(keys) == keys.keyMode \in {"WrapperOnly", "RootKeyPlusWrapper"}

\* noAccount(): the session manager holds a user once an account key is set
hasAccount(keys) == keys.accountKeyParams # NoKey

\* computeWrappingKey, createRootKey: the key derived from a passcode
computeWrappingKey(passcode) == passcode

FreshItemsKeyUuids(st) == ItemsKeyUuids \ DOMAIN st.items

\* ProtocolVersions.V003, the last version whose items key is the root key's
LAST_NONROOT_ITEMS_KEY_VERSION == 3

\* getLatestVersion(): ProtocolVersions.V004
LatestVersion == 4

ProtocolVersions == LAST_NONROOT_ITEMS_KEY_VERSION..LatestVersion

\* SNRootKey.version, SNRootKeyParams.version: the first key is a key of an
\* account of the older version, the others are of the latest version
versionOfKey(k) ==
  IF k = NoKey + 1 THEN LAST_NONROOT_ITEMS_KEY_VERSION ELSE LatestVersion

\* the payload of a new items key: a dirty default of the operator version
\* that has not been synced
NewItemsKeyPayload(version) ==
  MakePayload(<<>>, FALSE, TRUE, FALSE, FALSE)
    @@ [isDefault |-> TRUE, version |-> version, neverSynced |-> TRUE]

\* createNewDefaultItemsKey that leaves the current default flagged
createNewDefaultItemsKey_KeepsDefault(st, rk) ==
  LET operatorVersion == IF rk # NoKey THEN versionOfKey(rk) ELSE LatestVersion
      uuid == CHOOSE u \in AllItemsKeyUuids \ DOMAIN st.items :
                \A v \in AllItemsKeyUuids \ DOMAIN st.items : u <= v
  IN emitPayload(st, uuid, NewItemsKeyPayload(operatorVersion))

\* createNewDefaultItemsKey that takes the latest version whatever the root key
createNewDefaultItemsKey_LatestVersion(st, rk) ==
  LET currentDefault == getDefaultItemsKey(st.items)
      s1 == IF currentDefault # NoEncKey
            THEN changeItem(st, currentDefault.id,
                            [st.items[currentDefault.id] EXCEPT !.isDefault = FALSE])
            ELSE st
      uuid == CHOOSE u \in AllItemsKeyUuids \ DOMAIN st.items :
                \A v \in AllItemsKeyUuids \ DOMAIN st.items : u <= v
  IN emitPayload(s1, uuid, NewItemsKeyPayload(LatestVersion))

\* createNewDefaultItemsKey: the new key has the version of the root key,
\* the latest without one; the current default is demoted and marked dirty,
\* the new key is mapped as a dirty default
createNewDefaultItemsKey(st, rk) ==
  LET operatorVersion == IF rk # NoKey THEN versionOfKey(rk) ELSE LatestVersion
      currentDefault == getDefaultItemsKey(st.items)
      s1 == IF currentDefault # NoEncKey
            THEN changeItem(st, currentDefault.id,
                            [st.items[currentDefault.id] EXCEPT !.isDefault = FALSE])
            ELSE st
      uuid == CHOOSE u \in AllItemsKeyUuids \ DOMAIN st.items :
                \A v \in AllItemsKeyUuids \ DOMAIN st.items : u <= v
  IN emitPayload(s1, uuid, NewItemsKeyPayload(operatorVersion))

repersistAllItems(a) ==
  [a EXCEPT !.ss = savePayloads(a.ss, a.st.items, DOMAIN a.st.items)]

\* the rest of an application operation runs unless a step of it threw
andThen(a, rest(_)) == IF a.threw THEN a ELSE rest(a)

\* handleFullSyncCompletion that does not persist the items again
handleFullSyncCompletion_NoRepersist(a) ==
  IF getDefaultItemsKey(a.st.items) = NoEncKey
  THEN [a EXCEPT !.st = createNewDefaultItemsKey(a.st, a.keys.rootKey)]
  ELSE a

\* handleFullSyncCompletion
handleFullSyncCompletion(a) ==
  IF getDefaultItemsKey(a.st.items) = NoEncKey
  THEN andThen([a EXCEPT !.st = createNewDefaultItemsKey(a.st, a.keys.rootKey)],
               LAMBDA a1 : IF a1.keys.keyMode = "WrapperOnly"
                           THEN repersistAllItems(a1) ELSE a1)
  ELSE a

RECURSIVE setItemsToBeDeleted(_, _, _)
setItemsToBeDeleted(st, uuids, i) ==
  IF i > Len(uuids) THEN st
  ELSE setItemsToBeDeleted(setItemToBeDeleted(st, uuids[i]), uuids, i + 1)

\* handleDownloadFirstSyncCompletion: with a synced default items key the
\* items keys never synced are deleted; without one, and with a root key,
\* those of another version than the root key's are deleted, and a default
\* items key is created when the items keys read at the start were none
handleDownloadFirstSyncCompletion(a) ==
  LET allItemsKeys == itemsKeys(a.st.items)
      neverSynced == {u \in allItemsKeys : a.st.items[u].neverSynced}
      hasSyncedItemsKey ==
        \E u \in allItemsKeys : ~a.st.items[u].neverSynced /\ a.st.items[u].isDefault
      toDelete ==
        {u \in neverSynced : a.st.items[u].version # versionOfKey(a.keys.rootKey)}
      s1 == IF toDelete # {}
            THEN setItemsToBeDeleted(a.st, SortedSeq(toDelete), 1)
            ELSE a.st
  IN IF hasSyncedItemsKey
     THEN [a EXCEPT !.st = setItemsToBeDeleted(a.st, SortedSeq(neverSynced), 1)]
     ELSE IF a.keys.rootKey = NoKey THEN a
     ELSE IF Cardinality(allItemsKeys) = 0
     THEN [a EXCEPT !.st = createNewDefaultItemsKey(s1, a.keys.rootKey)]
     ELSE [a EXCEPT !.st = s1]

\* the payload of a saved item: it is clean, and it has been synced
savedPayload(payload) ==
  IF "neverSynced" \in DOMAIN payload
  THEN [payload EXCEPT !.dirty = FALSE, !.neverSynced = FALSE]
  ELSE [payload EXCEPT !.dirty = FALSE]

RECURSIVE saveItems(_, _, _)
saveItems(st, uuids, i) ==
  IF i > Len(uuids) THEN st
  ELSE saveItems(emitPayload(st, uuids[i], savedPayload(st.items[uuids[i]])),
                 uuids, i + 1)

\* a sync completes: the dirty items are saved and come back clean, they are
\* persisted, a sync token is held, and the full-sync-completed event follows
completeSync(a, dirty) ==
  andThen([a EXCEPT !.st = saveItems(a.st, SortedSeq(dirty), 1), !.token = TRUE],
          LAMBDA a1 : handleFullSyncCompletion(
                        [a1 EXCEPT !.ss = savePayloads(a1.ss, a1.st.items, dirty)]))

requestSync(a, completes) ==
  IF completes
  THEN completeSync([a EXCEPT !.calls = @ \cup {"sync"}], getDirtyItems(a.st.items))
  ELSE [a EXCEPT !.calls = @ \cup {"sync"}]

\* sync that does not look at the lock
sync_IgnoresLock(a, completes) == requestSync(a, completes)

\* sync(): declined while syncing is locked
sync(a, completes) == IF a.locked THEN a ELSE requestSync(a, completes)

\* a sync may create an items key only while a uuid is left for it
SyncWithinBound(a) ==
  getDefaultItemsKey(a.st.items) = NoEncKey => FreshItemsKeyUuids(a.st) # {}

lockSyncing(a) == [a EXCEPT !.locked = TRUE]
unlockSyncing(a) == [a EXCEPT !.locked = FALSE]
resetSyncState(a) == [a EXCEPT !.token = FALSE]

\* markAllItemsAsNeedingSync: every item of the collection is marked dirty
markAllItemsAsNeedingSync(a) ==
  [a EXCEPT !.st = setItemsDirty(a.st, SortedSeq(DOMAIN a.st.items), 1)]

removeAllItemsFromMemory(a) == [a EXCEPT !.st = State(<<>>, <<>>, <<>>)]

clearDatabase(a) == [a EXCEPT !.ss = clearAllPayloads(a.ss)]

\* rewriteItemsKeys: the items keys are deleted from the database and
\* persisted again
rewriteItemsKeys(a) ==
  LET keyUuids == itemsKeys(a.st.items)
  IN [a EXCEPT !.ss = savePayloads(deletePayloads(a.ss, keyUuids), a.st.items, keyUuids)]

setPasscode(a, passcode, completes) ==
  andThen(applyKeyOp(a, setNewRootKeyWrapper(a.keys, computeWrappingKey(passcode),
                                             computeWrappingKey(passcode))),
          LAMBDA a1 : sync(rewriteItemsKeys(a1), completes))

removePasscode(a) ==
  andThen(applyKeyOp(a, removeRootKeyWrapper(a.keys)), rewriteItemsKeys)

changePasscode(a, passcode, completes) ==
  andThen(removePasscode(a), LAMBDA a1 : setPasscode(a1, passcode, completes))

\* signOut: the session is ended, the key state and all storage are cleared,
\* and deinit releases the services with the collection and the sync state
deinit(a) == [a EXCEPT !.st = State(<<>>, <<>>, <<>>), !.token = FALSE, !.locked = FALSE]

signOut(a) ==
  andThen(applyKeyOp([a EXCEPT !.calls = @ \cup {"session"}], clearLocalKeyState(a.keys)),
          LAMBDA a1 : deinit([a1 EXCEPT !.ss = clearAllData(a1.ss)]))

\* no account operation is in flight; the application is driven through one
\* operation at a time, with the auto-sync timer firing at any await
Idle == [name |-> "none", pc |-> "idle", wrappingKey |-> NoKey, key |-> NoKey,
         mergeLocal |-> FALSE, ephemeral |-> FALSE]

Ended(name, a) ==
  [name |-> name, outcome |-> IF a.threw THEN "throw" ELSE "ok", calls |-> a.calls]

NotStarted == [name |-> "constructor", outcome |-> "ok", calls |-> {}]

AppBecomes(a) ==
  /\ KeysBecome(a.keys)
  /\ items' = a.st.items
  /\ referenceMap' = a.st.referenceMap
  /\ inverseReferenceMap' = a.st.inverseReferenceMap
  /\ storageValues' = a.ss.values
  /\ diskValues' = a.ss.disk
  /\ rawStorageValue' = a.ss.raw
  /\ dbPayloads' = a.ss.db
  /\ persistencePolicy' = a.ss.policy
  /\ syncToken' = a.token
  /\ syncLocked' = a.locked
  /\ syncBegun' = (IF "sync" \in a.calls THEN ~syncBegun ELSE syncBegun)

\* the application stores a value of its own
SetValue(key) ==
  /\ appOp = Idle
  /\ \E a \in {[CurrentApp EXCEPT !.ss = setValue(CurrentStorage, key)]} :
        /\ AppBecomes(a)
        /\ lastAppOp' = Ended("setValue", a)
  /\ UNCHANGED <<appOp, lastKeyOp, encVars>>

\* the application removes a value of its own
RemoveValue(key) ==
  /\ appOp = Idle
  /\ \E a \in {[CurrentApp EXCEPT !.ss = removeValue(CurrentStorage, key)]} :
        /\ AppBecomes(a)
        /\ lastAppOp' = Ended("removeValue", a)
  /\ UNCHANGED <<appOp, lastKeyOp, encVars>>

\* the storage values are cleared
Clear ==
  /\ appOp = Idle
  /\ \E a \in {[CurrentApp EXCEPT !.ss = clear(CurrentStorage)]} :
        /\ AppBecomes(a)
        /\ lastAppOp' = Ended("clear", a)
  /\ UNCHANGED <<appOp, lastKeyOp, encVars>>

\* the application hands the next stage of its launch to the storage service
HandleApplicationStage ==
  /\ stagesHandled < Len(ApplicationStages)
  /\ storagePersistable' =
       handleApplicationStage(CurrentStorage, ApplicationStages[stagesHandled + 1]).persistable
  /\ stagesHandled' = stagesHandled + 1
  /\ UNCHANGED <<itemVars, keyVars, lastEncryption, decVars, verVars, launchVars, appVars>>

SetPasscode(passcode, completes) ==
  /\ appOp = Idle
  /\ SyncWithinBound(CurrentApp)
  /\ \E a \in {setPasscode(CurrentApp, passcode, completes)} :
        /\ AppBecomes(a)
        /\ lastAppOp' = Ended("setPasscode", a)
  /\ UNCHANGED <<appOp, lastKeyOp, encVars>>

\* setPasscode called while an account operation awaits the session manager
SetPasscodeMeanwhile(passcode) ==
  /\ appOp.pc = "session"
  /\ SyncWithinBound(CurrentApp)
  /\ \E a \in {setPasscode(CurrentApp, passcode, FALSE)} :
        /\ AppBecomes(a)
        /\ lastAppOp' = Ended("setPasscode", a)
  /\ UNCHANGED <<appOp, lastKeyOp, encVars>>

RemovePasscode ==
  /\ appOp = Idle
  /\ \E a \in {removePasscode(CurrentApp)} :
        /\ AppBecomes(a)
        /\ lastAppOp' = Ended("removePasscode", a)
  /\ UNCHANGED <<appOp, lastKeyOp, encVars>>

SignOut ==
  /\ appOp = Idle
  /\ \E a \in {signOut(CurrentApp)} :
        /\ AppBecomes(a)
        /\ lastAppOp' = Ended("signOut", a)
  /\ UNCHANGED <<appOp, lastKeyOp, encVars>>

\* the auto-sync timer fires: beginAutoSyncTimer calls sync()
AutoSync(completes) ==
  /\ SyncWithinBound(CurrentApp)
  /\ \E a \in {sync(CurrentApp, completes)} :
        /\ AppBecomes(a)
        /\ lastAppOp' = Ended("autoSync", a)
  /\ UNCHANGED <<appOp, lastKeyOp, encVars>>

\* getWrappingKeyIfNecessary(passcode): nothing without a passcode; with one,
\* the wrapping key computed from the passcode passed in, or a challenge
getWrappingKeyIfNecessary(keys, passcode) ==
  IF ~hasPasscode(keys) THEN [prompt |-> FALSE, wrappingKey |-> NoKey]
  ELSE IF passcode = NoKey THEN [prompt |-> TRUE, wrappingKey |-> NoKey]
  ELSE [prompt |-> FALSE, wrappingKey |-> computeWrappingKey(passcode)]

AccountOps == {"register", "signIn", "changePassword"}

\* the account operation after getWrappingKeyIfNecessary: waiting for the
\* challenge, or past lockSyncing and waiting for the session manager
StartOp(name, w, ephemeral, mergeLocal) ==
  [name |-> name, pc |-> IF w.prompt THEN "challenge" ELSE "session",
   wrappingKey |-> w.wrappingKey, key |-> NoKey,
   mergeLocal |-> mergeLocal, ephemeral |-> ephemeral]

Canceled(name) == [name |-> name, outcome |-> "canceled", calls |-> {}]

Failed(name) == [name |-> name, outcome |-> "error", calls |-> {"session"}]

Register(ephemeral, mergeLocal) ==
  /\ appOp = Idle
  /\ LET w == getWrappingKeyIfNecessary(CurrentKeys, NoKey)
     IN /\ appOp' = StartOp("register", w, ephemeral, mergeLocal)
        /\ syncLocked' = (IF w.prompt THEN syncLocked ELSE TRUE)
  /\ UNCHANGED <<itemVars, keyVars, encVars, storageValues, diskValues, rawStorageValue,
                 dbPayloads,
                 persistencePolicy, syncToken, syncBegun, lastAppOp>>

SignIn(ephemeral, mergeLocal) ==
  /\ appOp = Idle
  /\ LET w == getWrappingKeyIfNecessary(CurrentKeys, NoKey)
     IN /\ appOp' = StartOp("signIn", w, ephemeral, mergeLocal)
        /\ syncLocked' = (IF w.prompt THEN syncLocked ELSE TRUE)
  /\ UNCHANGED <<itemVars, keyVars, encVars, storageValues, diskValues, rawStorageValue,
                 dbPayloads,
                 persistencePolicy, syncToken, syncBegun, lastAppOp>>

\* changePassword creates an items key: it starts while a uuid is left for it
ChangePassword(passcode) ==
  /\ appOp = Idle
  /\ FreshItemsKeyUuids(Current) # {}
  /\ LET w == getWrappingKeyIfNecessary(CurrentKeys, passcode)
     IN /\ appOp' = StartOp("changePassword", w, FALSE, FALSE)
        /\ syncLocked' = (IF w.prompt THEN syncLocked ELSE TRUE)
  /\ UNCHANGED <<itemVars, keyVars, encVars, storageValues, diskValues, rawStorageValue,
                 dbPayloads,
                 persistencePolicy, syncToken, syncBegun, lastAppOp>>

\* upgradeProtocolVersion prompts before anything else
UpgradeProtocolVersion ==
  /\ appOp = Idle
  /\ appOp' = [Idle EXCEPT !.name = "upgradeProtocolVersion", !.pc = "challenge"]
  /\ UNCHANGED <<itemVars, keyVars, encVars, storageValues, diskValues, rawStorageValue,
                 dbPayloads,
                 persistencePolicy, syncLocked, syncToken, syncBegun, lastAppOp>>

\* getWrappingKeyIfNecessary that takes a cancelled challenge for an answer
challengeAnswered_IgnoresCancel(op, passcode) ==
  [op EXCEPT !.pc = "session", !.wrappingKey = computeWrappingKey(passcode)]

\* the account operation after promptForChallengeResponse: a cancelled
\* challenge (no passcode) ends it, an answer gives the wrapping key
challengeAnswered(op, passcode) ==
  IF passcode = NoKey THEN Idle
  ELSE [op EXCEPT !.pc = "session", !.wrappingKey = computeWrappingKey(passcode)]

\* the challenge of getWrappingKeyIfNecessary is answered or cancelled; the
\* operation that goes on locks syncing before it calls the session manager
ChallengeResponse(passcode) ==
  /\ appOp.pc = "challenge"
  /\ appOp.name \in AccountOps
  /\ (passcode # NoKey /\ appOp.name = "changePassword") => FreshItemsKeyUuids(Current) # {}
  /\ appOp' = challengeAnswered(appOp, passcode)
  /\ syncLocked' = (IF appOp'.pc = "session" THEN TRUE ELSE syncLocked)
  /\ lastAppOp' = (IF appOp'.pc = "session" THEN lastAppOp ELSE Canceled(appOp.name))
  /\ UNCHANGED <<itemVars, keyVars, encVars, storageValues, diskValues, rawStorageValue,
                 dbPayloads,
                 persistencePolicy, syncToken, syncBegun>>

\* the challenge of upgradeProtocolVersion is answered or cancelled: the
\* passcode is changed to itself, and with an account changePassword follows
\* with the passcode passed in
UpgradeChallengeResponse(passcode, completes) ==
  /\ appOp.pc = "challenge"
  /\ appOp.name = "upgradeProtocolVersion"
  /\ IF passcode = NoKey
     THEN /\ appOp' = Idle
          /\ lastAppOp' = Canceled(appOp.name)
          /\ UNCHANGED <<itemVars, keyVars, storageValues, diskValues, rawStorageValue,
                    dbPayloads,
                         persistencePolicy, syncLocked, syncToken, syncBegun>>
     ELSE /\ SyncWithinBound(CurrentApp)
          /\ \E a1 \in {IF hasPasscode(CurrentKeys)
                          THEN changePasscode(CurrentApp, passcode, completes)
                          ELSE CurrentApp} :
               \E continues \in {~a1.threw /\ hasAccount(CurrentKeys)} :
                 /\ continues => FreshItemsKeyUuids(a1.st) # {}
                 /\ AppBecomes(IF continues THEN lockSyncing(a1) ELSE a1)
                 /\ appOp' = (IF continues
                              THEN StartOp("changePassword",
                                     getWrappingKeyIfNecessary(
                                       a1.keys,
                                       IF hasPasscode(CurrentKeys) THEN passcode ELSE NoKey),
                                     FALSE, FALSE)
                              ELSE Idle)
                 /\ lastAppOp' = Ended("upgradeProtocolVersion", a1)
          /\ UNCHANGED lastKeyOp
  /\ UNCHANGED encVars

\* the session manager answers: with an error syncing is unlocked, otherwise
\* the root key of the response, a key object of its own, is set; the key
\* and the key params of a changed password are created by the operator of
\* the latest version
SessionResponse(error, key, keyParams) ==
  /\ appOp.pc = "session"
  /\ key # rootKey
  /\ (appOp.name = "changePassword" /\ ~error) =>
       /\ versionOfKey(key) = LatestVersion
       /\ versionOfKey(keyParams) = LatestVersion
  /\ IF error
     THEN /\ AppBecomes(unlockSyncing(CurrentApp))
          /\ appOp' = Idle
          /\ lastAppOp' = Failed(appOp.name)
     ELSE \E a \in {applyKeyOp(CurrentApp,
                       setNewRootKey(CurrentKeys, key, keyParams, appOp.wrappingKey))} :
             /\ AppBecomes(a)
             /\ appOp' = (IF a.threw THEN Idle
                          ELSE [appOp EXCEPT !.pc = "keySet", !.key = key])
             /\ lastAppOp' = (IF a.threw
                              THEN Ended(appOp.name, [a EXCEPT !.calls = {"session"}])
                              ELSE lastAppOp)
  /\ UNCHANGED <<lastKeyOp, encVars>>

\* register and signIn after setNewRootKey: the sync state is reset, the
\* persistence policy set, and the local items are merged or dropped
MergeLocalData ==
  /\ appOp.pc = "keySet"
  /\ appOp.name \in {"register", "signIn"}
  /\ \E a \in {[resetSyncState(CurrentApp) EXCEPT
                   !.ss = setPersistencePolicy(
                            @, IF appOp.ephemeral THEN "Ephemeral" ELSE "Default")]} :
       AppBecomes(IF appOp.mergeLocal
                  THEN markAllItemsAsNeedingSync(a)
                  ELSE clearDatabase(removeAllItemsFromMemory(a)))
  /\ appOp' = [appOp EXCEPT !.pc = "merged"]
  /\ UNCHANGED <<lastAppOp, lastKeyOp, encVars>>

\* changePassword after setNewRootKey
CreateNewDefaultItemsKey ==
  /\ appOp.pc = "keySet"
  /\ appOp.name = "changePassword"
  /\ AppBecomes([CurrentApp EXCEPT !.st = createNewDefaultItemsKey(Current, rootKey)])
  /\ appOp' = [appOp EXCEPT !.pc = "merged"]
  /\ UNCHANGED <<lastAppOp, lastKeyOp, encVars>>

\* the end of a successful account operation: unlockSyncing, then sync
UnlockAndSync(completes) ==
  /\ appOp.pc = "merged"
  /\ SyncWithinBound(CurrentApp)
  /\ \E a \in {sync(unlockSyncing(CurrentApp), completes)} :
        /\ AppBecomes(a)
        /\ lastAppOp' = Ended(appOp.name, [a EXCEPT !.calls = @ \cup {"session"}])
  /\ appOp' = Idle
  /\ UNCHANGED <<lastKeyOp, encVars>>

(***************************************************************************)
(* Protocol versions and payload decryption (protocol service)             *)
(***************************************************************************)
\* payloads of decrypted items keys with their version, as a default or not,
\* never synced (updated_at at the epoch) or synced
VersionedItemsKeyPayloads ==
  {MakePayload(<<>>, FALSE, d, FALSE, FALSE)
     @@ [isDefault |-> b, version |-> v, neverSynced |-> n] :
     d \in BOOLEAN, b \in BOOLEAN, v \in ProtocolVersions, n \in BOOLEAN}

\* an encrypted content string: its version prefix and the key that made it
EncryptedContent(version, by) == Content("EncryptedString", by) @@ [version |-> version]

\* PurePayload.version: the version prefix of the content string
versionOf(payload) == payload["content"].version

\* a flag of a payload that is set
flagged(payload, flag) == flag \in DOMAIN payload /\ payload[flag]

CreateMaxPayloadFromAnyObject(object, override) ==
  CreatePayload(object, MaxPayloadFields, override)

CopyEncryptionParameters(raw, override) ==
  CreatePayload(raw, EncryptionParametersFields, override)

itemsKeyForPayload(payload, its) ==
  IF \E u \in itemsKeys(its) : ItemsEncKey(u) = payload["items_key_id"]
  THEN payload["items_key_id"]
  ELSE NoEncKey

defaultItemsKeyForItemVersion(version, its) ==
  IF \E u \in itemsKeys(its) : its[u].version = version
  THEN ItemsEncKey(SortedSeq({u \in itemsKeys(its) : its[u].version = version})[1])
  ELSE NoEncKey

\* keyToUseForDecryptionOfPayload that looks the key up by version only
keyToUseForDecryptionOfPayload_IgnoresKeyId(payload, rk, its) ==
  IF contentTypeUsesRootKeyEncryption(payload["content_type"])
  THEN [threw |-> FALSE, key |-> IF rk = NoKey THEN NoEncKey ELSE RootEncKey(rk)]
  ELSE IF versionOf(payload) = LatestVersion
  THEN [threw |-> TRUE, key |-> NoEncKey]
  ELSE [threw |-> FALSE, key |-> defaultItemsKeyForItemVersion(versionOf(payload), its)]

\* keyToUseForDecryptionOfPayload: the key, none, or a throw for a payload of
\* the latest version that names no items key
keyToUseForDecryptionOfPayload(payload, rk, its) ==
  IF contentTypeUsesRootKeyEncryption(payload["content_type"])
  THEN [threw |-> FALSE, key |-> IF rk = NoKey THEN NoEncKey ELSE RootEncKey(rk)]
  ELSE IF "items_key_id" \in DOMAIN payload
  THEN [threw |-> FALSE, key |-> itemsKeyForPayload(payload, its)]
  ELSE IF versionOf(payload) = LatestVersion
  THEN [threw |-> TRUE, key |-> NoEncKey]
  ELSE [threw |-> FALSE, key |-> defaultItemsKeyForItemVersion(versionOf(payload), its)]

\* generateDecryptedParameters of the operator of the payload's version: a
\* bare object is returned as it is, a base64 string is decoded, an encrypted
\* string is decrypted by the key that made it and fails under any other
generateDecryptedParameters(encryptedParameters, key) ==
  IF formatOf(encryptedParameters) = "DecryptedBareObject"
  THEN encryptedParameters
  ELSE IF formatOf(encryptedParameters) = "DecryptedBase64String"
  THEN CopyEncryptionParameters(
         encryptedParameters, [content |-> Content("DecryptedBareObject", NoEncKey)])
  ELSE IF encryptedParameters["content"].by = key
  THEN CopyEncryptionParameters(
         encryptedParameters,
         [content |-> Content("DecryptedBareObject", NoEncKey),
          errorDecrypting |-> FALSE,
          errorDecryptingValueChanged |-> flagged(encryptedParameters, "errorDecrypting"),
          waitingForKey |-> FALSE])
  ELSE CopyEncryptionParameters(
         encryptedParameters,
         [errorDecrypting |-> TRUE,
          errorDecryptingValueChanged |-> ~flagged(encryptedParameters, "errorDecrypting")])

\* the key an operator decrypts with: an items key that itself failed to
\* decrypt holds no key material and decrypts nothing
keyMaterial(key, its) ==
  IF key.kind = "items" /\ key.id \in DOMAIN its /\ its[key.id].errorDecrypting
  THEN NoEncKey
  ELSE key

DecryptionThrew == [status |-> "threw", payload |-> <<>>]
DecryptionReturned(payload) == [status |-> "returned", payload |-> payload]

\* payloadByDecryptingPayload that throws when it finds no key
payloadByDecryptingPayload_ThrowsWithoutKey(payload, key, rk, its) ==
  IF "content" \notin DOMAIN payload THEN DecryptionThrew
  ELSE IF formatOf(payload) = "DecryptedBareObject" THEN DecryptionReturned(payload)
  ELSE \* the key passed in, or the key looked up for an encrypted string
       LET lookup == IF key = NoEncKey /\ formatOf(payload) = "EncryptedString"
                     THEN keyToUseForDecryptionOfPayload(payload, rk, its)
                     ELSE [threw |-> FALSE, key |-> key]
       IN IF lookup.threw THEN DecryptionThrew
          ELSE IF lookup.key = NoEncKey /\ formatOf(payload) = "EncryptedString"
          THEN DecryptionThrew
          ELSE DecryptionReturned(
                 CreateMaxPayloadFromAnyObject(
                   payload,
                   generateDecryptedParameters(CreateEncryptionParameters(payload),
                                               keyMaterial(lookup.key, its))))

payloadByDecryptingPayload(payload, key, rk, its) ==
  IF "content" \notin DOMAIN payload THEN DecryptionThrew
  ELSE IF formatOf(payload) = "DecryptedBareObject" THEN DecryptionReturned(payload)
  ELSE \* the key passed in, or the key looked up for an encrypted string
       LET lookup == IF key = NoEncKey /\ formatOf(payload) = "EncryptedString"
                     THEN keyToUseForDecryptionOfPayload(payload, rk, its)
                     ELSE [threw |-> FALSE, key |-> key]
       IN IF lookup.threw THEN DecryptionThrew
          ELSE IF lookup.key = NoEncKey /\ formatOf(payload) = "EncryptedString"
          THEN DecryptionReturned(
                 CreateMaxPayloadFromAnyObject(
                   payload, [waitingForKey |-> TRUE, errorDecrypting |-> TRUE]))
          ELSE DecryptionReturned(
                 CreateMaxPayloadFromAnyObject(
                   payload,
                   generateDecryptedParameters(CreateEncryptionParameters(payload),
                                               keyMaterial(lookup.key, its))))

\* a null entry of a batch
NullPayload == <<>>

\* content that is a string: encrypted, or base64 encoded
isString(payload) == formatOf(payload) \in {"EncryptedString", "DecryptedBase64String"}

\* payloadsByDecryptingPayloads that ends at the first payload that throws
RECURSIVE payloadsByDecryptingPayloads_Aborts(_, _, _, _, _, _)
payloadsByDecryptingPayloads_Aborts(payloads, key, rk, its, i, decryptedPayloads) ==
  IF i > Len(payloads) THEN decryptedPayloads
  ELSE IF \/ payloads[i] = NullPayload
          \/ flagged(payloads[i], "deleted") /\ "content" \notin DOMAIN payloads[i]
          \/ ~isString(payloads[i])
  THEN payloadsByDecryptingPayloads_Aborts(
         payloads, key, rk, its, i + 1, Append(decryptedPayloads, payloads[i]))
  ELSE IF payloadByDecryptingPayload(payloads[i], key, rk, its).status = "threw"
  THEN decryptedPayloads
  ELSE payloadsByDecryptingPayloads_Aborts(
         payloads, key, rk, its, i + 1,
         Append(decryptedPayloads,
                payloadByDecryptingPayload(payloads[i], key, rk, its).payload))

\* payloadsByDecryptingPayloads: the loop from payload i on, with the payloads
\* pushed so far
RECURSIVE payloadsByDecryptingPayloads(_, _, _, _, _, _)
payloadsByDecryptingPayloads(payloads, key, rk, its, i, decryptedPayloads) ==
  IF i > Len(payloads) THEN decryptedPayloads
  ELSE IF \/ payloads[i] = NullPayload
          \/ flagged(payloads[i], "deleted") /\ "content" \notin DOMAIN payloads[i]
          \/ ~isString(payloads[i])
  THEN payloadsByDecryptingPayloads(
         payloads, key, rk, its, i + 1, Append(decryptedPayloads, payloads[i]))
  ELSE IF payloadByDecryptingPayload(payloads[i], key, rk, its).status = "threw"
  THEN payloadsByDecryptingPayloads(
         payloads, key, rk, its, i + 1,
         Append(decryptedPayloads,
                CreateMaxPayloadFromAnyObject(
                  payloads[i],
                  [errorDecrypting |-> TRUE,
                   errorDecryptingValueChanged |-> ~flagged(payloads[i], "errorDecrypting")])))
  ELSE payloadsByDecryptingPayloads(
         payloads, key, rk, its, i + 1,
         Append(decryptedPayloads,
                payloadByDecryptingPayload(payloads[i], key, rk, its).payload))

\* the items keys a payload handed to decryption can name or be made by
StoredKeyIds == {ItemsEncKey(u) : u \in StoredItemsKeyUuids}

\* payloads handed to decryption: a note without content, deleted or not,
\* with a bare object, a base64 string or an encrypted string of either
\* version that names an items key or none, and an items key encrypted by a
\* root key; flagged errorDecrypting or not
DecryptionPayloads ==
  {deepMerge(deepMerge([uuid |-> 1, content_type |-> "Note", deleted |-> FALSE], c), e) :
     c \in {<<>>, [deleted |-> TRUE],
            [content |-> Content("DecryptedBareObject", NoEncKey)],
            [content |-> Content("DecryptedBase64String", NoEncKey)]}
           \cup {[content |-> EncryptedContent(v, by), enc_item_key |-> by] :
                   v \in ProtocolVersions, by \in StoredKeyIds}
           \cup {[content |-> EncryptedContent(v, by), enc_item_key |-> by,
                  items_key_id |-> id] :
                   v \in ProtocolVersions, by \in StoredKeyIds, id \in StoredKeyIds},
     e \in {<<>>, [errorDecrypting |-> TRUE]}}
  \cup {[uuid |-> u, content_type |-> "SN|ItemsKey", deleted |-> FALSE,
         content |-> EncryptedContent(LatestVersion, RootEncKey(k)),
         enc_item_key |-> RootEncKey(k)] :
          u \in ItemsKeyUuids, k \in {MaxKey}}

\* the payloads that follow the first one in a batch: a null entry, and the
\* payload of the latest version made by the first items key that names it
TailPayloads ==
  {NullPayload}
  \cup {p \in DecryptionPayloads :
          /\ "errorDecrypting" \notin DOMAIN p
          /\ p["content_type"] = "Note"
          /\ formatOf(p) = "EncryptedString"
          /\ versionOf(p) = LatestVersion
          /\ p["enc_item_key"] = ItemsEncKey(
               CHOOSE u \in StoredItemsKeyUuids : \A w \in StoredItemsKeyUuids : u <= w)
          /\ "items_key_id" \in DOMAIN p
          /\ p["items_key_id"] = p["enc_item_key"]}

RECURSIVE Batches(_)
Batches(n) ==
  IF n = 0 THEN {<<>>}
  ELSE IF n = 1 THEN {<<>>} \cup {<<p>> : p \in DecryptionPayloads}
  ELSE Batches(n - 1) \cup {Append(b, p) : b \in Batches(n - 1) \ {<<>>}, p \in TailPayloads}

\* the arguments and the result of a call of payloadsByDecryptingPayloads
Decryption(payloads, key, result) == [payloads |-> payloads, key |-> key, result |-> result]

NoDecryption == Decryption(<<>>, NoEncKey, <<>>)

PayloadsByDecryptingPayloads(payloads, key) ==
  /\ lastDecryption' =
       Decryption(payloads, key,
                  payloadsByDecryptingPayloads(payloads, key, rootKey, items, 1, <<>>))
  /\ UNCHANGED <<itemVars, keyVars, lastEncryption, observerPending, lastImport,
                 verVars, stageVars, appVars>>

(***************************************************************************)
(* Errored items and the items-key mapping observer (protocol service)     *)
(***************************************************************************)
\* the item of a payload: the flags a payload does not carry are not set,
\* and an item without decrypted content has no references
itemOf(payload) == deepMerge(MakePayload(<<>>, FALSE, FALSE, FALSE, FALSE), payload)

\* SNItem.payloadRepresentation()
payloadRepresentation(item) == CreateMaxPayloadFromAnyObject(item, <<>>)

\* the collection after the payloads are mapped
CollectionBecomes(st) ==
  /\ items' = st.items
  /\ referenceMap' = st.referenceMap
  /\ inverseReferenceMap' = st.inverseReferenceMap

\* mapPayloadsToLocalItems: the payloads from payload i on are emitted
RECURSIVE mapPayloadsToLocalItems(_, _, _)
mapPayloadsToLocalItems(st, payloads, i) ==
  IF i > Len(payloads) THEN st
  ELSE mapPayloadsToLocalItems(
         emitPayload(st, payloads[i]["uuid"], itemOf(payloads[i])), payloads, i + 1)

\* the items decryptErroredItems takes up
erroredItems(its) ==
  {u \in DOMAIN its : flagged(its[u], "waitingForKey") \/ its[u].errorDecrypting}

\* decryptErroredItems that does not map what it decrypted
decryptErroredItems_DoesNotMap(st, rk) ==
  LET uuids == SortedSeq(erroredItems(st.items))
      payloads == [i \in 1..Len(uuids) |-> payloadRepresentation(st.items[uuids[i]])]
  IN IF Len(payloadsByDecryptingPayloads(payloads, NoEncKey, rk, st.items, 1, <<>>)) = 0
     THEN st
     ELSE st

decryptErroredItems(st, rk) ==
  LET uuids == SortedSeq(erroredItems(st.items))
      payloads == [i \in 1..Len(uuids) |-> payloadRepresentation(st.items[uuids[i]])]
  IN IF Len(uuids) = 0 THEN st
     ELSE mapPayloadsToLocalItems(
            st, payloadsByDecryptingPayloads(payloads, NoEncKey, rk, st.items, 1, <<>>), 1)

\* payloads of notes as the server sends them: encrypted strings of the
\* latest version that name an items key, made by that key or by another
RetrievedPayloads ==
  {[uuid |-> u, content_type |-> "Note", deleted |-> FALSE,
    content |-> EncryptedContent(LatestVersion, by), enc_item_key |-> by,
    items_key_id |-> id] :
     u \in Notes, by \in StoredKeyIds, id \in StoredKeyIds}

\* a retrieved payload is decrypted and mapped
MapRetrievedPayload(payload) ==
  /\ CollectionBecomes(
       mapPayloadsToLocalItems(
         Current,
         payloadsByDecryptingPayloads(<<payload>>, NoEncKey, rootKey, items, 1, <<>>), 1))
  /\ UNCHANGED <<keyVars, lastEncryption, decVars, verVars, stageVars, appVars>>

\* an items key is mapped: the mapping observer of the protocol service is
\* notified
MapItemsKey(uuid, payload) ==
  /\ CollectionBecomes(emitPayload(Current, uuid, payload))
  /\ observerPending' = TRUE
  /\ UNCHANGED <<keyVars, lastEncryption, lastDecryption, lastImport, verVars, stageVars, appVars>>

\* the mapping observer runs decryptErroredItems; it is notified again when
\* the items it maps include an items key
DecryptErroredItems ==
  /\ observerPending
  /\ CollectionBecomes(decryptErroredItems(Current, rootKey))
  /\ observerPending' = (erroredItems(items) \cap AllItemsKeyUuids # {})
  /\ observerRan' = ~observerRan
  /\ UNCHANGED <<keyVars, lastEncryption, lastDecryption, lastImport, lastSyncEvent, emitting,
                 notifying, notified, lastAlternation, lastBackup, keyOp, stageVars, appVars>>

\* payloads of items keys as the server sends them: encrypted strings of the
\* latest version made by a root key
RetrievedItemsKeyPayloads ==
  {[uuid |-> u, content_type |-> "SN|ItemsKey", deleted |-> FALSE,
    content |-> EncryptedContent(LatestVersion, RootEncKey(k)),
    enc_item_key |-> RootEncKey(k)] :
     u \in StoredItemsKeyUuids, k \in Keys}

\* a retrieved items key is decrypted and mapped: the mapping observer of
\* the protocol service is notified
MapRetrievedItemsKey(payload) ==
  /\ CollectionBecomes(
       mapPayloadsToLocalItems(
         Current,
         payloadsByDecryptingPayloads(<<payload>>, NoEncKey, rootKey, items, 1, <<>>), 1))
  /\ observerPending' = TRUE
  /\ UNCHANGED <<keyVars, lastEncryption, lastDecryption, lastImport, verVars, stageVars, appVars>>

(***************************************************************************)
(* Sync events handled by the protocol service (onSyncEvent)               *)
(***************************************************************************)
\* the items keys the server holds: synced, clean, at most one of them the
\* default
ServerItemsKeyPayloads ==
  {payload \in VersionedItemsKeyPayloads : ~payload.dirty /\ ~payload.neverSynced}

ServerItemsKeys ==
  {serverKeys \in UNION {[uuids -> ServerItemsKeyPayloads] :
                           uuids \in SUBSET StoredItemsKeyUuids} :
     Cardinality({u \in DOMAIN serverKeys : serverKeys[u].isDefault}) <= 1}

RECURSIVE mapItemsKeys(_, _, _)
mapItemsKeys(st, serverKeys, uuids) ==
  IF uuids = {} THEN st
  ELSE LET u == CHOOSE v \in uuids : \A w \in uuids : v <= w
       IN mapItemsKeys(emitPayload(st, u, serverKeys[u]), serverKeys, uuids \ {u})

\* the sync event handled by onSyncEvent on its n-th call, the items keys
\* of the collection and the root key when the handling began, and whether
\* a uuid was left for a new items key
SyncEvent(n, eventName, found, rk) ==
  [n |-> n, eventName |-> eventName, found |-> found, rootKey |-> rk]

NoSyncEvent == SyncEvent(0, "none", <<>>, NoKey)

foundItemsKeys(its) == [u \in itemsKeys(its) |-> its[u]]

\* createNewDefaultItemsKey called by a consumer
CallCreateNewDefaultItemsKey ==
  /\ appOp = Idle
  /\ AllItemsKeyUuids \ DOMAIN items # {}
  /\ CollectionBecomes(createNewDefaultItemsKey(Current, rootKey))
  /\ UNCHANGED <<keyVars, encVars, appVars>>

\* a download-first sync completes: the items keys of the server have been
\* mapped, those of the collection that were synced are among them, and
\* onSyncEvent handles DownloadFirstSyncCompleted
DownloadFirstSyncCompleted(serverKeys) ==
  /\ appOp = Idle
  /\ ~syncLocked
  /\ lastSyncEvent.n < MaxSyncEvents
  /\ \A u \in AllItemsKeyUuids \cap DOMAIN items :
       IF items[u].neverSynced THEN u \notin DOMAIN serverKeys
       ELSE u \in DOMAIN serverKeys
  /\ AllItemsKeyUuids \ (DOMAIN items \cup DOMAIN serverKeys) # {}
  /\ \E downloaded \in {[CurrentApp EXCEPT
                            !.st = mapItemsKeys(Current, serverKeys, DOMAIN serverKeys)]} :
       /\ AppBecomes(handleDownloadFirstSyncCompletion(downloaded))
       /\ lastSyncEvent' = SyncEvent(lastSyncEvent.n + 1, "DownloadFirstSyncCompleted",
                                     foundItemsKeys(downloaded.st.items), rootKey)
  /\ UNCHANGED <<appOp, lastAppOp, lastKeyOp, lastEncryption, decVars, obsVars, stageVars>>

\* a sync completes: the dirty items are saved, and onSyncEvent handles
\* FullSyncCompleted
FullSyncCompleted ==
  /\ appOp = Idle
  /\ ~syncLocked
  /\ lastSyncEvent.n < MaxSyncEvents
  /\ AllItemsKeyUuids \ DOMAIN items # {}
  /\ \E saved \in {[CurrentApp EXCEPT
                       !.st = saveItems(Current, SortedSeq(getDirtyItems(items)), 1),
                       !.ss = savePayloads(
                                CurrentStorage,
                                saveItems(Current, SortedSeq(getDirtyItems(items)), 1).items,
                                getDirtyItems(items)),
                       !.token = TRUE]} :
       /\ AppBecomes(handleFullSyncCompletion(saved))
       /\ lastSyncEvent' = SyncEvent(lastSyncEvent.n + 1, "FullSyncCompleted",
                                     foundItemsKeys(saved.st.items), rootKey)
  /\ UNCHANGED <<appOp, lastAppOp, lastKeyOp, lastEncryption, decVars, obsVars, stageVars>>

(***************************************************************************)
(* Backup import (application importData, payloadsByDecryptingBackupFile)  *)
(***************************************************************************)
\* computeRootKey(password, keyParams): the key the operator derives from
\* the password under the salt of the key params
computeRootKey(password, keyParams) == RootEncKey(((password + keyParams) % MaxKey) + 1)

\* payloadsByDecryptingBackupFile: the raw items become payloads of the file
\* fields; with key params every payload is decrypted under the key computed
\* from the password, without them the payloads are returned as they are
payloadsByDecryptingBackupFile(data, password, rk, its) ==
  LET encryptedPayloads ==
        [i \in 1..Len(data.items) |-> CreatePayload(data.items[i], FilePayloadFields, <<>>)]
  IN IF data.keyParams # NoKey
     THEN payloadsByDecryptingPayloads(
            encryptedPayloads, computeRootKey(password, data.keyParams), rk, its, 1, <<>>)
     ELSE encryptedPayloads

\* validPayloads that hands on every payload
validPayloads_KeepsErrored(decryptedPayloads) == decryptedPayloads

\* the payloads importData hands on: those not flagged errorDecrypting
validPayloads(decryptedPayloads) ==
  SelectSeq(decryptedPayloads, LAMBDA payload : ~flagged(payload, "errorDecrypting"))

\* importPayloads: the payloads are mapped as dirty items
RECURSIVE importPayloads(_, _, _)
importPayloads(st, payloads, i) ==
  IF i > Len(payloads) THEN st
  ELSE importPayloads(
         emitPayload(st, payloads[i]["uuid"],
                     deepMerge(itemOf(payloads[i]), [dirty |-> TRUE])),
         payloads, i + 1)

\* the items of a backup file: item i has the i-th uuid; its content is a
\* bare object or an encrypted string made by a root key; the first item may
\* also be made by an items key, or carry an errorDecrypting field
BackupItems(i) ==
  {[uuid |-> i, content_type |-> IF i \in Notes THEN "Note" ELSE "Tag", content |-> c] :
     c \in {Content("DecryptedBareObject", NoEncKey),
            EncryptedContent(LatestVersion, RootEncKey(MaxKey))}}
  \cup {item \in
          {[uuid |-> i, content_type |-> "Note",
            content |-> Content("DecryptedBareObject", NoEncKey), errorDecrypting |-> TRUE],
           [uuid |-> i, content_type |-> "Note",
            content |-> EncryptedContent(LatestVersion, ItemsEncKey(MaxNote + MaxTag + 1)),
            enc_item_key |-> ItemsEncKey(MaxNote + MaxTag + 1),
            items_key_id |-> ItemsEncKey(MaxNote + MaxTag + 1)]} : i = 1}

RECURSIVE BackupItemLists(_)
BackupItemLists(n) ==
  IF n = 0 THEN {<<>>}
  ELSE BackupItemLists(n - 1)
       \cup {Append(b, item) : b \in {l \in BackupItemLists(n - 1) : Len(l) = n - 1},
                               item \in BackupItems(n)}

\* backup files: { keyParams, items }, the key params absent in a plaintext
\* backup
BackupFiles ==
  {[keyParams |-> kp, items |-> l] :
     kp \in {NoKey, MaxKey}, l \in BackupItemLists(MaxBackupLen)}

\* the n-th call of importData: its arguments, what it returned, and what
\* the sync it started uploaded
Import(n, data, password, affectedItems, errorCount, synced, uploaded) ==
  [n |-> n, data |-> data, password |-> password, affectedItems |-> affectedItems,
   errorCount |-> errorCount, synced |-> synced, uploaded |-> uploaded]

NoImport == Import(0, [keyParams |-> NoKey, items |-> <<>>], NoKey, <<>>, 0, FALSE, {})

\* importData: the backup is decrypted, the payloads that decrypted are
\* imported, a sync is started, and the affected items and the count of the
\* payloads left out are returned
ImportData(data, password, completes) ==
  /\ appOp = Idle
  /\ lastImport.n < MaxImports
  /\ Len(data.items) <= MaxNote + MaxTag
  /\ \E decryptedPayloads \in
          {payloadsByDecryptingBackupFile(data, password, rootKey, items)} :
       \E valid \in {validPayloads(decryptedPayloads)} :
         \E imported \in {[CurrentApp EXCEPT !.st = importPayloads(Current, valid, 1)]} :
           /\ IndexWithinBound(imported.st)
           /\ SyncWithinBound(imported)
           /\ \E a \in {sync(imported, completes)} :
                /\ AppBecomes(a)
                /\ lastAppOp' = Ended("importData", a)
           /\ lastImport' =
                Import(lastImport.n + 1, data, password,
                       [i \in 1..Len(valid) |-> valid[i]["uuid"]],
                       Len(decryptedPayloads) - Len(valid),
                       completes /\ ~imported.locked,
                       IF completes /\ ~imported.locked
                       THEN getDirtyItems(imported.st.items) ELSE {})
  /\ UNCHANGED <<appOp, lastKeyOp, lastEncryption, lastDecryption, observerPending,
                 verVars, stageVars>>

(***************************************************************************)
(* ItemManager: observers of the collection                                *)
(***************************************************************************)
\* the observers in the order addObserver registered them
Observers == 1..MaxObserver

\* the payload manager awaits no observer
NoEmission == 0

\* the emissions so far, numbered in the order they were submitted
Emissions == {notified[i][1] : i \in DOMAIN notified}

\* a notifyObservers loop: the callback of the observer before `next` has
\* been called and is awaited
Notification(emission, uuid, type, discards, next) ==
  [emission |-> emission, uuid |-> uuid, type |-> type, discards |-> discards,
   next |-> next]

\* onPayloadInsertion that awaits setPayloads
awaitsObservers_Always(type) == TRUE

\* the handler awaits setPayloads, and with it the observers: onPayloadChange
\* does, onPayloadInsertion returns while the observers are being notified
awaitsObservers(type) == type = "Changed"

\* the payload manager emits a payload: the item manager's handler runs
\* setPayloads, which maps the payload and calls the first observer
EmitToObservers(uuid, payload) ==
  /\ emitting = NoEmission
  /\ Cardinality(Emissions) < MaxEmission
  /\ \E emission \in {Cardinality(Emissions) + 1},
        type \in {IF uuid \in DOMAIN items THEN "Changed" ELSE "Inserted"} :
       /\ CollectionBecomes(setPayloads(Current, uuid, payload))
       /\ notified' = Append(notified, <<emission, 1>>)
       /\ notifying' =
            notifying \cup {Notification(emission, uuid, type, discardable(payload), 2)}
       /\ emitting' = (IF awaitsObservers(type) THEN emission ELSE NoEmission)
  /\ UNCHANGED <<keyVars, lastEncryption, decVars, lastSyncEvent, histVars, stageVars,
                 appVars>>

\* the callback a notifyObservers loop awaits returns: the loop calls the
\* next observer; after the last one setPayloads returns, and onPayloadChange
\* deletes the item from the collection when its payload is discardable
ObserverReturns(emission) ==
  \E n \in notifying :
    /\ n.emission = emission
    /\ IF n.next \in Observers
       THEN /\ notified' = Append(notified, <<emission, n.next>>)
            /\ notifying' = (notifying \ {n}) \cup {[n EXCEPT !.next = @ + 1]}
            /\ UNCHANGED <<itemVars, emitting, histVars>>
       ELSE /\ notifying' = notifying \ {n}
            /\ emitting' = (IF emitting = emission THEN NoEmission ELSE emitting)
            /\ IF n.type = "Changed" /\ n.discards
               THEN items' = Delete(items, n.uuid)
               ELSE items' = items
            /\ UNCHANGED <<referenceMap, inverseReferenceMap, notified, histVars>>
    /\ UNCHANGED <<keyVars, lastEncryption, decVars, lastSyncEvent, stageVars, appVars>>

(***************************************************************************)
(* UUID alternation                                                        *)
(***************************************************************************)
NoAlternation == [n |-> 0, old |-> 0, new |-> 0, referencing |-> {}]

\* the items whose content references uuid
referencingItems(its, uuid) == {r \in DOMAIN its : Contains(its[r].references, uuid)}

\* an item that leaves its references as they are when a uuid changes
potentialItemOfInterestHasChangedItsUUID_Ignores(payload, oldUUID, newUUID) == payload

\* SFItem.potentialItemOfInterestHasChangedItsUUID: every reference to the old
\* uuid is pointed at the new one and the item is set dirty; an item that
\* failed to decrypt is left alone
potentialItemOfInterestHasChangedItsUUID(payload, oldUUID, newUUID) ==
  IF payload.errorDecrypting THEN payload
  ELSE IF Contains(payload.references, oldUUID)
       THEN [payload EXCEPT
               !.references = [i \in DOMAIN payload.references |->
                                 IF payload.references[i] = oldUUID THEN newUUID
                                 ELSE payload.references[i]],
               !.dirty = TRUE]
       ELSE payload

\* every item of the collection is told of the change of uuid
RECURSIVE informModelsOfUUIDChange(_, _, _, _, _)
informModelsOfUUIDChange(st, uuids, i, oldUUID, newUUID) ==
  IF i > Len(uuids) THEN st
  ELSE LET payload == st.items[uuids[i]]
           informed == potentialItemOfInterestHasChangedItsUUID(payload, oldUUID, newUUID)
       IN informModelsOfUUIDChange(
            IF informed # payload THEN emitPayload(st, uuids[i], informed) ELSE st,
            uuids, i + 1, oldUUID, newUUID)

\* alternateUuidForItem: the old item is marked deleted and dirty, an item of
\* the same content is created under the new uuid, and the items that
\* referenced the old uuid are pointed at the new one
alternateUuidForItem(st, uuid, newUuid) ==
  LET item == st.items[uuid]
      s1 == changeItem(st, uuid, MutatorSetDeleted(item))
      s2 == emitPayload(s1, newUuid, MutatorResult(item))
  IN informModelsOfUUIDChange(s2, SortedSeq(DOMAIN s2.items), 1, uuid, newUuid)

\* a uuid just generated: no item holds it and no item refers to it
FreshUuid(newUuid) ==
  /\ newUuid \notin DOMAIN items
  /\ referencingItems(items, newUuid) = {}

AlternateUuidForItem(uuid, newUuid) ==
  /\ lastAlternation.n < MaxAlternations
  /\ uuid \in DOMAIN items
  /\ ~items[uuid].deleted
  /\ FreshUuid(newUuid)
  /\ (uuid \in Tags) = (newUuid \in Tags)
  /\ \E st \in {alternateUuidForItem(Current, uuid, newUuid)} :
       /\ IndexWithinBound(st)
       /\ CollectionBecomes(st)
  /\ lastAlternation' = [n |-> lastAlternation.n + 1, old |-> uuid, new |-> newUuid,
                         referencing |-> referencingItems(items, uuid)]
  /\ UNCHANGED <<keyVars, lastEncryption, decVars, lastSyncEvent, emitting, notifying, notified,
                 lastBackup, observerRan, keyOp, stageVars, appVars>>

(***************************************************************************)
(* Backup files (createBackupFile)                                         *)
(***************************************************************************)
\* getRootKeyParams: the wrapper key params in WrapperOnly, the account key
\* params with a root key, and an exception in any other key mode
getRootKeyParams(keys) ==
  IF keys.keyMode = "WrapperOnly"
  THEN [threw |-> FALSE, params |-> keys.wrapperKeyParams]
  ELSE IF keys.keyMode \in {"RootKeyOnly", "RootKeyPlusWrapper"}
  THEN [threw |-> FALSE, params |-> keys.accountKeyParams]
  ELSE [threw |-> TRUE, params |-> NoKey]

\* payloadsByEncryptingPayloads: the payloads are encrypted one after the
\* other; the first that throws ends the call
RECURSIVE payloadsByEncryptingPayloads(_, _, _, _, _, _)
payloadsByEncryptingPayloads(payloads, intent, rk, its, i, results) ==
  IF i > Len(payloads) THEN [threw |-> FALSE, payloads |-> results]
  ELSE LET res == payloadByEncryptingPayload(payloads[i], intent, NoEncKey, rk, its)
       IN IF res.status = "threw" THEN [threw |-> TRUE, payloads |-> results]
          ELSE payloadsByEncryptingPayloads(payloads, intent, rk, its, i + 1,
                                            Append(results, res.payload))

BackupFile(status, its, keyParams) ==
  [status |-> status, data |-> [items |-> its, keyParams |-> keyParams]]

\* createBackupFile(subItems, intent, returnIfEmpty)
createBackupFile(keys, its, subItems, intent, returnIfEmpty) ==
  LET uuids == SortedSeq(subItems)
      payloads == [i \in 1..Len(uuids) |-> payloadRepresentation(its[uuids[i]])]
      encrypted == payloadsByEncryptingPayloads(payloads, intent, keys.rootKey, its, 1, <<>>)
      keyParams == getRootKeyParams(keys)
  IN IF returnIfEmpty /\ Len(uuids) = 0 THEN BackupFile("null", <<>>, NoKey)
     ELSE IF encrypted.threw THEN BackupFile("throw", <<>>, NoKey)
     ELSE IF keyParams.threw THEN BackupFile("throw", <<>>, NoKey)
     ELSE BackupFile("ok", encrypted.payloads,
                     IF keyParams.params # NoKey /\ intent # "FileDecrypted"
                     THEN keyParams.params ELSE NoKey)

Backup(n, subItems, intent, returnIfEmpty, file) ==
  [n |-> n, subItems |-> subItems, intent |-> intent, returnIfEmpty |-> returnIfEmpty,
   file |-> file]

NoBackup == Backup(0, {}, "none", FALSE, BackupFile("none", <<>>, NoKey))

CreateBackupFile(subItems, intent, returnIfEmpty) ==
  /\ lastBackup.n < MaxBackups
  /\ subItems \subseteq DOMAIN items
  /\ lastBackup' = Backup(lastBackup.n + 1, subItems, intent, returnIfEmpty,
                          createBackupFile(CurrentKeys, items, subItems, intent, returnIfEmpty))
  /\ UNCHANGED <<itemVars, keyVars, lastEncryption, decVars, lastSyncEvent, emitting, notifying,
                 notified, lastAlternation, observerRan, keyOp, stageVars, appVars>>

(***************************************************************************)
(* Launch and teardown (SNApplication.prepareForLaunch, launch, deinit)    *)
(***************************************************************************)
\* handleStage for the stages from..to in order, at the storage service
RECURSIVE handleStages(_, _, _)
handleStages(ss, from, to) ==
  IF from > to THEN ss
  ELSE handleStages(handleApplicationStage(ss, ApplicationStages[from]), from + 1, to)

StageIndex(stage) == CHOOSE i \in DOMAIN ApplicationStages : ApplicationStages[i] = stage

\* the stages up to `stage` have been handed to the services
StagesBecome(stage) ==
  /\ storagePersistable' =
       handleStages(CurrentStorage, stagesHandled + 1, StageIndex(stage)).persistable
  /\ stagesHandled' = StageIndex(stage)

\* isStorageWrapped: the values object holds a wrapped entry
isStorageWrapped(wrapped) == wrapped # NoRawValue

\* decryptStorage that takes the payload as it comes back
decryptStorage_IgnoresError(wrapped, rk) == [threw |-> FALSE, values |-> wrapped.values]

\* decryptStorage: the wrapped entry is decrypted by the key the protocol
\* service finds for it; it throws when the payload comes back errored
decryptStorage(wrapped, rk) ==
  LET decryptedPayload ==
        payloadByDecryptingPayload(
          CreateMaxPayloadFromAnyObject(wrapped.payload,
                                        [content_type |-> "SN|EncryptedStorage"]),
          NoEncKey, rk, <<>>)
  IN IF decryptedPayload.status = "threw" THEN [threw |-> TRUE, values |-> {}]
     ELSE IF flagged(decryptedPayload.payload, "errorDecrypting")
     THEN [threw |-> TRUE, values |-> {}]
     ELSE [threw |-> FALSE, values |-> wrapped.values]

\* prepareForLaunch: the storage values are read from the device, the key
\* mode is recomputed from them, and the first two stages are delivered; the
\* device reports a database that existed
PrepareForLaunch ==
  /\ launchPc = "constructed"
  /\ ~dealloced
  /\ storageValues' =
       (IF rawStorageValue = NoRawValue THEN {} ELSE rawStorageValue.unwrapped)
  /\ valuesWrapped' =
       (IF rawStorageValue = NoRawValue THEN NoRawValue ELSE rawStorageValue.wrapped)
  /\ keyMode' = initialize(wrappedRootKey, wrapperKeyParams, accountKeyParams)
  /\ rootKey' = (IF keyMode' = "RootKeyOnly" THEN keychain ELSE NoKey)
  /\ lastKeyOp' = <<"initialize", "ok">>
  /\ StagesBecome("ReadyForLaunch_05")
  /\ launchPc' = "started"
  /\ UNCHANGED <<itemVars, keychain, wrappedRootKey, wrapperKeyParams, accountKeyParams,
                 lastEncryption, decVars, verVars, awaitDatabaseLoad, launched, dealloced,
                 autoSyncInterval, launchResult, diskValues, rawStorageValue, dbPayloads,
                 persistencePolicy, syncLocked, syncToken, syncBegun, appOp, lastAppOp>>

\* launch() from the storage decryption on, with the key state the challenge
\* left: storage is decrypted when it is wrapped, the stages up to
\* LoadingDatabase are delivered with launched set before the Launched stage,
\* and loadDatabasePayloads is started; launch() returns here unless it
\* awaits the load
LaunchContinues(keys, await) ==
  \E d \in {IF isStorageWrapped(valuesWrapped)
            THEN decryptStorage(valuesWrapped, keys.rootKey)
            ELSE [threw |-> FALSE, values |-> storageValues]} :
    /\ KeysBecome(keys)
    /\ IF d.threw
       THEN /\ launchResult' = "throw"
            /\ launchPc' = "ended"
            /\ launched' = FALSE
            /\ UNCHANGED <<storageValues, valuesWrapped, storagePersistable, stagesHandled>>
       ELSE /\ storageValues' = d.values
            /\ valuesWrapped' = NoRawValue
            /\ StagesBecome("LoadingDatabase_11")
            /\ launched' = TRUE
            /\ launchPc' = "loading"
            /\ launchResult' = (IF await THEN "pending" ELSE "ok")
    /\ UNCHANGED <<itemVars, lastEncryption, decVars, verVars, dealloced, autoSyncInterval,
                   diskValues, rawStorageValue, dbPayloads, persistencePolicy,
                   syncLocked, syncToken, syncBegun, appOp, lastAppOp>>

\* getLaunchChallenge: the challenge service asks for the local passcode
\* when one is configured
getLaunchChallenge(keys) == hasPasscode(keys)

\* launch(awaitDatabaseLoad): with a launch challenge the response is
\* prompted for, without one the launch goes on
Launch(await) ==
  /\ launchPc = "started"
  /\ ~dealloced
  /\ awaitDatabaseLoad' = await
  /\ IF getLaunchChallenge(CurrentKeys)
     THEN /\ launched' = FALSE
          /\ launchPc' = "challenge"
          /\ launchResult' = "pending"
          /\ UNCHANGED <<itemVars, keyVars, lastEncryption, decVars, verVars,
                         storagePersistable, stagesHandled, dealloced, autoSyncInterval,
                         valuesWrapped, appVars>>
     ELSE /\ LaunchContinues(CurrentKeys, await)
          /\ UNCHANGED lastKeyOp

\* the launch challenge is answered: handleLaunchChallengeResponse unwraps
\* the root key with the wrapping key of the passcode, and a throw, of it or
\* of reading a response that was cancelled or services that were released,
\* rejects launch()
HandleLaunchChallengeResponse(passcode) ==
  /\ launchPc = "challenge"
  /\ \E res \in {IF passcode = NoKey \/ dealloced THEN Thrown(CurrentKeys)
                 ELSE unwrapRootKey(CurrentKeys, computeWrappingKey(passcode))} :
       /\ lastKeyOp' = <<"unwrapRootKey", Outcome(res)>>
       /\ IF res.threw
          THEN /\ launchResult' = "throw"
               /\ launchPc' = "ended"
               /\ UNCHANGED <<itemVars, keyMode, rootKey, keychain, wrappedRootKey,
                              wrapperKeyParams, accountKeyParams, lastEncryption, decVars,
                              verVars, storagePersistable, stagesHandled, launched,
                              dealloced, autoSyncInterval, valuesWrapped, appVars>>
          ELSE LaunchContinues(res.state, awaitDatabaseLoad)
  /\ UNCHANGED awaitDatabaseLoad

\* the continuation of loadDatabasePayloads: it throws when the application
\* has been released, which rejects launch() when it awaits the load;
\* otherwise the LoadedDatabase stage is delivered, the auto-sync timer is
\* started and a sync is requested
LoadDatabasePayloadsEnds(completes) ==
  /\ launchPc = "loading"
  /\ launchPc' = "ended"
  /\ IF dealloced
     THEN /\ launchResult' = (IF awaitDatabaseLoad THEN "throw" ELSE launchResult)
          /\ UNCHANGED <<itemVars, keyVars, storagePersistable, stagesHandled,
                         autoSyncInterval, appVars>>
     ELSE /\ SyncWithinBound(CurrentApp)
          /\ StagesBecome("LoadedDatabase_12")
          /\ autoSyncInterval' = TRUE
          /\ \E a \in {sync(CurrentApp, completes)} :
               /\ AppBecomes(a)
               /\ lastAppOp' = Ended("launch", a)
          /\ launchResult' = "ok"
          /\ UNCHANGED <<appOp, lastKeyOp>>
  /\ UNCHANGED <<lastEncryption, decVars, verVars, awaitDatabaseLoad, launched, dealloced,
                 valuesWrapped>>

\* deinit(): the auto-sync timer is cleared and the services are released
\* with what they hold in memory
Deinit ==
  /\ launchPc # "constructed"
  /\ ~dealloced
  /\ dealloced' = TRUE
  /\ autoSyncInterval' = FALSE
  /\ \E a \in {deinit([CurrentApp EXCEPT !.keys.rootKey = NoKey, !.ss.values = {}])} :
       /\ AppBecomes(a)
       /\ lastAppOp' = Ended("deinit", a)
  /\ valuesWrapped' = NoRawValue
  /\ UNCHANGED <<appOp, lastKeyOp, lastEncryption, decVars, verVars, storagePersistable,
                 stagesHandled, launchPc, awaitDatabaseLoad, launched, launchResult>>

\* a new SNApplication is constructed once the one before it has been released
NewApplication ==
  /\ dealloced
  /\ launchPc \in {"started", "ended"}
  /\ dealloced' = FALSE
  /\ launchPc' = "constructed"
  /\ launched' = FALSE
  /\ launchResult' = "none"
  /\ awaitDatabaseLoad' = FALSE
  /\ storagePersistable' = FALSE
  /\ stagesHandled' = 0
  /\ UNCHANGED <<itemVars, keyVars, lastEncryption, decVars, verVars, autoSyncInterval,
                 valuesWrapped, appVars>>

\* an empty collection on a device without account or passcode
Init ==
  /\ items = <<>>
  /\ referenceMap = <<>>
  /\ inverseReferenceMap = <<>>
  /\ keyMode = "RootKeyNone"
  /\ rootKey = NoKey
  /\ keychain = NoKey
  /\ wrappedRootKey = NoWrapped
  /\ wrapperKeyParams = NoKey
  /\ accountKeyParams = NoKey
  /\ lastKeyOp = <<"constructor", "ok">>
  /\ lastEncryption = NoEncryption
  /\ lastDecryption = NoDecryption
  /\ observerPending = FALSE
  /\ lastImport = NoImport
  /\ lastSyncEvent = NoSyncEvent
  /\ emitting = NoEmission
  /\ notifying = {}
  /\ notified = <<>>
  /\ lastAlternation = NoAlternation
  /\ lastBackup = NoBackup
  /\ observerRan = FALSE
  /\ keyOp = NoKeyOp
  /\ storagePersistable = FALSE
  /\ stagesHandled = 0
  /\ launchPc = "constructed"
  /\ awaitDatabaseLoad = FALSE
  /\ launched = FALSE
  /\ dealloced = FALSE
  /\ autoSyncInterval = FALSE
  /\ launchResult = "none"
  /\ valuesWrapped = NoRawValue
  /\ storageValues = {}
  /\ diskValues = {}
  /\ rawStorageValue = NoRawValue
  /\ dbPayloads = {}
  /\ persistencePolicy = "Default"
  /\ syncLocked = FALSE
  /\ syncToken = FALSE
  /\ syncBegun = FALSE
  /\ appOp = Idle
  /\ lastAppOp = NotStarted

\* C33: every emitted payload that is deleted and not dirty (discardable) is
\* removed from the item collection immediately after it has been emitted to
\* the observers, whether it arrives as an insertion or as a change: after
\* the emission completes the collection holds no discardable item.
C33_DiscardableRemoved == \A u \in DOMAIN items : ~discardable(items[u])

RefNext ==
  \/ \E uuid \in Uuids : \E payload \in RefPayloads(uuid) : EmitPayload(uuid, payload)
  \/ \E uuid \in Uuids : SetItemDirty(uuid)
  \/ \E uuid \in Uuids : SetItemToBeDeleted(uuid)

\* the reference index under payloads of decrypted items
RefSpec == Init /\ [][RefNext]_vars

DirtyNext ==
  \/ \E uuid \in Uuids : \E payload \in FlagPayloads : EmitPayload(uuid, payload)
  \/ \E uuid \in Uuids : SetItemDirty(uuid)
  \/ \E uuid \in Uuids : SetItemToBeDeleted(uuid)

\* the client flags under payloads without references
DirtySpec == Init /\ [][DirtyNext]_vars

(***************************************************************************)
(* Properties of the reference index (RefSpec)                             *)
(***************************************************************************)
Forward(a) == OrEmpty(referenceMap, a)
Inverse(b) == OrEmpty(inverseReferenceMap, b)

\* an item of the collection that is not deleted and whose content references x
References(its, r, x) ==
  r \in DOMAIN its /\ ~its[r].deleted /\ Contains(its[r].references, x)

\* C1: the forward and inverse reference maps are mutually consistent: for
\* every pair of uuids (A, B), A is in inverseReferenceMap[B] if and only if
\* B is in referenceMap[A].
C1_MapsConsistent ==
  \A a \in Uuids, b \in Uuids : Contains(Inverse(b), a) <=> Contains(Forward(a), b)

\* C2: when the payload of a live item is re-emitted with a changed reference
\* list (also an empty one), referenceMap[item] is exactly the new list
\* afterwards and the item is in the inverse index of no uuid it stopped
\* referencing.
C2_ReemitReplacesReferences ==
  [][\A uuid \in Uuids : \A payload \in RefPayloads(uuid) :
       (/\ uuid \in DOMAIN items
        /\ ~items[uuid].deleted
        /\ ~payload.deleted
        /\ payload.references # items[uuid].references
        /\ EmitPayload(uuid, payload))
       => (/\ OrEmpty(referenceMap', uuid) = payload.references
           /\ \A b \in Uuids :
                ~Contains(payload.references, b)
                  => ~Contains(OrEmpty(inverseReferenceMap', b), uuid))]_vars

\* C3: mapping the same payload again is idempotent: the number of items does
\* not grow, the item's references are preserved and the inverse index of each
\* referenced uuid holds the referencing uuid at most once.
C3_RemapIdempotent ==
  [][\A uuid \in Uuids :
       (/\ uuid \in DOMAIN items
        /\ ~items[uuid].deleted
        /\ EmitPayload(uuid, items[uuid]))
       => (/\ DOMAIN items' = DOMAIN items
           /\ items'[uuid].references = items[uuid].references
           /\ \A b \in Uuids : Count(OrEmpty(inverseReferenceMap', b), uuid) <= 1)]_vars

\* C4: after a payload with deleted = true for uuid X has been processed, X
\* has no entry in the forward map or in the inverse map and X is in no other
\* uuid's forward or inverse list.
C4_DeletedDetached ==
  [][\A uuid \in Uuids : \A payload \in RefPayloads(uuid) :
       (payload.deleted /\ EmitPayload(uuid, payload))
       => (/\ uuid \notin DOMAIN referenceMap'
           /\ uuid \notin DOMAIN inverseReferenceMap'
           /\ \A b \in Uuids :
                /\ ~Contains(OrEmpty(referenceMap', b), uuid)
                /\ ~Contains(OrEmpty(inverseReferenceMap', b), uuid))]_vars

\* C5: setItemToBeDeleted(X) marks X deleted and dirty, and every item that
\* referenced X before the call no longer references X and is dirty after it.
C5_DeleteUpdatesReferencing ==
  [][\A uuid \in Uuids :
       SetItemToBeDeleted(uuid)
       => (/\ uuid \in DOMAIN items'
           /\ items'[uuid].deleted
           /\ items'[uuid].dirty
           /\ \A r \in Uuids :
                References(items, r, uuid)
                  => (/\ r \in DOMAIN items'
                      /\ ~Contains(items'[r].references, uuid)
                      /\ items'[r].dirty))]_vars

(***************************************************************************)
(* Properties of the dirty set (DirtySpec)                                 *)
(***************************************************************************)
\* C6: the items to upload are exactly the items that are dirty, not dummy
\* and either not errorDecrypting or deleted: an item flagged errorDecrypting
\* is in the set getDirtyItems returns only if it is deleted.
C6_DirtySet ==
  /\ \A u \in getDirtyItems(items) : items[u].errorDecrypting => items[u].deleted
  /\ \A u \in DOMAIN items :
       (items[u].dirty /\ ~items[u].dummy /\ (items[u].errorDecrypting => items[u].deleted))
         => u \in getDirtyItems(items)
  /\ \A u \in getDirtyItems(items) : items[u].dirty /\ ~items[u].dummy

\* a corrupt dirty item is held back while a corrupt dirty tombstone is uploaded
C6_Witness ==
  \E u \in DOMAIN items, v \in DOMAIN items :
    /\ items[u].dirty /\ ~items[u].dummy /\ items[u].errorDecrypting /\ ~items[u].deleted
    /\ u \notin getDirtyItems(items)
    /\ items[v].dirty /\ ~items[v].dummy /\ items[v].errorDecrypting /\ items[v].deleted
    /\ v \in getDirtyItems(items)

(***************************************************************************)
(* Properties of the key manager (KeySpec)                                 *)
(***************************************************************************)
KeyStorage == <<keyMode, rootKey, keychain, wrappedRootKey, wrapperKeyParams, accountKeyParams>>

\* the step is a call of the key operation: a step of the collection alone
\* leaves every key variable as it is
Ran(name) == lastKeyOp'[1] = name /\ keyVars' # keyVars
Completed(name) == lastKeyOp' = <<name, "ok">> /\ keyVars' # keyVars

\* C7: the key mode changes only along the transitions of the four key
\* operations: setNewRootKeyWrapper None -> WrapperOnly and RootKeyOnly ->
\* RootKeyPlusWrapper; removeRootKeyWrapper WrapperOnly -> None and
\* RootKeyPlusWrapper -> RootKeyOnly; setNewRootKey None -> RootKeyOnly and
\* WrapperOnly -> RootKeyPlusWrapper, leaving RootKeyOnly and
\* RootKeyPlusWrapper as they are; clearLocalKeyState every mode -> None. No
\* other operation changes the key mode.
C7_KeyModeTransitions ==
  [][/\ keyMode' # keyMode =>
          \/ /\ Ran("setNewRootKeyWrapper")
             /\ <<keyMode, keyMode'>> \in {<<"RootKeyNone", "WrapperOnly">>,
                                          <<"RootKeyOnly", "RootKeyPlusWrapper">>}
          \/ /\ Ran("removeRootKeyWrapper")
             /\ <<keyMode, keyMode'>> \in {<<"WrapperOnly", "RootKeyNone">>,
                                          <<"RootKeyPlusWrapper", "RootKeyOnly">>}
          \/ /\ Ran("setNewRootKey")
             /\ <<keyMode, keyMode'>> \in {<<"RootKeyNone", "RootKeyOnly">>,
                                          <<"WrapperOnly", "RootKeyPlusWrapper">>}
          \/ /\ Ran("clearLocalKeyState")
             /\ keyMode' = "RootKeyNone"
     /\ Completed("setNewRootKeyWrapper") =>
          keyMode' = (IF keyMode = "RootKeyNone" THEN "WrapperOnly" ELSE "RootKeyPlusWrapper")
     /\ Completed("removeRootKeyWrapper") =>
          keyMode' = (IF keyMode = "WrapperOnly" THEN "RootKeyNone" ELSE "RootKeyOnly")
     /\ Completed("setNewRootKey") =>
          keyMode' = (IF keyMode = "RootKeyNone" THEN "RootKeyOnly"
                      ELSE IF keyMode = "WrapperOnly" THEN "RootKeyPlusWrapper"
                      ELSE keyMode)
     /\ Ran("clearLocalKeyState") => keyMode' = "RootKeyNone"]_vars

\* a passcode was removed from an account: RootKeyPlusWrapper -> RootKeyOnly
C7_Witness ==
  /\ lastKeyOp = <<"removeRootKeyWrapper", "ok">>
  /\ keyMode = "RootKeyOnly"

\* C8: the key mode that initialize() recomputes from the persisted wrapper
\* key params, wrapped root key and account key params equals the in-memory
\* key mode the key operations have reached.
C8_InitializeAgrees ==
  keyMode = initialize(wrappedRootKey, wrapperKeyParams, accountKeyParams)

\* an account with a passcode, recomputed as RootKeyPlusWrapper
C8_Witness ==
  /\ lastKeyOp = <<"setNewRootKeyWrapper", "ok">>
  /\ keyMode = "RootKeyPlusWrapper"
  /\ initialize(wrappedRootKey, wrapperKeyParams, accountKeyParams) = "RootKeyPlusWrapper"

\* C9: between key operations the storage location of the root key matches
\* the key mode: in RootKeyOnly the keychain holds the root key and storage
\* holds no wrapped root key; in RootKeyPlusWrapper storage holds the root key
\* wrapped by the wrapping key and the keychain is empty.
C9_StorageMatchesKeyMode ==
  /\ keyMode = "RootKeyOnly" =>
       /\ keychain # NoKey
       /\ keychain = rootKey
       /\ wrappedRootKey = NoWrapped
  /\ keyMode = "RootKeyPlusWrapper" =>
       /\ wrappedRootKey # NoWrapped
       /\ wrappedRootKey.key = rootKey
       /\ keychain = NoKey

\* C10: setNewRootKeyWrapper called in WrapperOnly or RootKeyPlusWrapper and
\* removeRootKeyWrapper called in None or RootKeyOnly throw and leave the key
\* mode, the in-memory root key, the keychain and the stored wrapped root key
\* and key params unchanged.
C10_PreconditionViolationsThrow ==
  [][(\/ Ran("setNewRootKeyWrapper") /\ keyMode \in {"WrapperOnly", "RootKeyPlusWrapper"}
      \/ Ran("removeRootKeyWrapper") /\ keyMode \in {"RootKeyNone", "RootKeyOnly"})
     => (lastKeyOp'[2] = "throw" /\ UNCHANGED KeyStorage)]_vars

\* a second passcode was refused on an account that has one
C10_Witness ==
  /\ lastKeyOp = <<"setNewRootKeyWrapper", "throw">>
  /\ keyMode = "RootKeyPlusWrapper"
  /\ wrappedRootKey # NoWrapped

\* C11: setNewRootKey is atomic and requires a wrapping key iff the resulting
\* mode has a wrapper: it fails when keyParams is missing, when the key equals
\* the current root key and when the resulting mode is RootKeyPlusWrapper and
\* no wrappingKey is supplied, and when it fails the key mode, the in-memory
\* root key and the persisted root key params are the same as before the call.
C11_SetNewRootKeyAtomic ==
  [][\A key \in Keys, keyParams \in Keys \cup {NoKey}, wrappingKey \in Keys \cup {NoKey} :
       SetNewRootKey(key, keyParams, wrappingKey)
       => (/\ (\/ keyParams = NoKey
               \/ key = rootKey
               \/ (keyMode \in {"WrapperOnly", "RootKeyPlusWrapper"} /\ wrappingKey = NoKey))
                => lastKeyOp'[2] = "throw"
           /\ lastKeyOp'[2] = "throw"
                => UNCHANGED <<keyMode, rootKey, accountKeyParams>>)]_vars

\* C12: after setNewRootKey completes successfully, every items key present
\* in the collection is dirty.
C12_NewRootKeyDirtiesItemsKeys ==
  [][Completed("setNewRootKey") => \A u \in itemsKeys(items') : items'[u].dirty]_vars

\* a new root key was set while the collection holds an items key, now dirty
C12_Witness ==
  /\ lastKeyOp = <<"setNewRootKey", "ok">>
  /\ itemsKeys(items) # {}
  /\ \A u \in itemsKeys(items) : items[u].dirty

\* C14: unwrapRootKey is valid only in WrapperOnly or RootKeyPlusWrapper and
\* throws in None and RootKeyOnly; in RootKeyPlusWrapper a wrapping key that
\* does not decrypt the stored wrapped root key makes it fail with the root
\* key in memory left as it was (unset after a launch) and the key mode
\* unchanged, and a correct wrapping key sets the root key in memory to the
\* decrypted stored key.
C14_UnwrapRootKey ==
  [][\A wrappingKey \in Keys :
       UnwrapRootKey(wrappingKey)
       => (/\ keyMode \in {"RootKeyNone", "RootKeyOnly"}
                => (lastKeyOp'[2] = "throw" /\ UNCHANGED KeyStorage)
           /\ keyMode = "WrapperOnly"
                => (lastKeyOp'[2] = "ok" /\ rootKey' = wrappingKey /\ keyMode' = keyMode)
           /\ (keyMode = "RootKeyPlusWrapper" /\ wrappedRootKey.by # wrappingKey)
                => (lastKeyOp'[2] = "throw" /\ rootKey' = rootKey /\ keyMode' = keyMode)
           /\ (keyMode = "RootKeyPlusWrapper" /\ wrappedRootKey # NoWrapped
                                              /\ wrappedRootKey.by = wrappingKey)
                => (lastKeyOp'[2] = "ok" /\ rootKey' = wrappedRootKey.key
                                        /\ keyMode' = keyMode))]_vars

\* after a launch with a passcode, a wrong wrapping key was refused and the
\* root key is still unset
C14_Witness ==
  /\ lastKeyOp = <<"unwrapRootKey", "throw">>
  /\ keyMode = "RootKeyPlusWrapper"
  /\ wrappedRootKey # NoWrapped
  /\ rootKey = NoKey

KeyNext ==
  \/ \E wrappingKey \in Keys, keyParams \in Keys : SetNewRootKeyWrapper(wrappingKey, keyParams)
  \/ RemoveRootKeyWrapper
  \/ \E key \in Keys, keyParams \in Keys \cup {NoKey}, wrappingKey \in Keys \cup {NoKey} :
       SetNewRootKey(key, keyParams, wrappingKey)
  \/ ClearLocalKeyState
  \/ \E wrappingKey \in Keys : UnwrapRootKey(wrappingKey)
  \/ \E uuid \in ItemsKeyUuids : \E payload \in ItemsKeyPayloads : EmitPayload(uuid, payload)

\* the key manager driven through its public operations, with items keys
\* arriving in the collection
KeySpec == Init /\ [][KeyNext]_vars

LaunchNext ==
  \/ KeyNext
  \/ Initialize

\* the key manager across launches of the application
LaunchSpec == Init /\ [][LaunchNext]_vars

(***************************************************************************)
(* Properties of payload encryption (EncSpec)                              *)
(***************************************************************************)
\* the step is a call of payloadByEncryptingPayload
Encrypts == lastEncryption' # lastEncryption

\* a payload that encryption accepts: not flagged errorDecrypting, with a
\* bare object as content
Encryptable(payload) ==
  /\ ~("errorDecrypting" \in DOMAIN payload /\ payload["errorDecrypting"])
  /\ formatOf(payload) = "DecryptedBareObject"

\* a key is present: one was passed, or the intent is not a decrypted one and
\* the key of the payload's content type is available
KeyPresent(payload, intent, key) ==
  \/ key # NoEncKey
  \/ /\ intent \notin {"SyncDecrypted", "LocalStorageDecrypted", "FileDecrypted"}
     /\ IF payload["content_type"] = "SN|ItemsKey"
        THEN rootKey # NoKey
        ELSE getDefaultItemsKey(items) # NoEncKey

\* C18: the intent-to-format mapping is enforced for every (intent, key
\* present) pair: with a key, Sync, FileEncrypted, FilePreferEncrypted,
\* LocalStorageEncrypted and LocalStoragePreferEncrypted give EncryptedString;
\* without a key, LocalStorageDecrypted, LocalStoragePreferEncrypted,
\* FileDecrypted and FilePreferEncrypted give DecryptedBareObject and
\* SyncDecrypted gives DecryptedBase64String; every other combination throws
\* and produces no payload.
C18_IntentFormatTable ==
  [][(Encrypts /\ Encryptable(lastEncryption'.payload))
     => LET intent == lastEncryption'.intent
            present == KeyPresent(lastEncryption'.payload, intent, lastEncryption'.key)
            out == lastEncryption'.result
        IN IF present /\ intent \in {"Sync", "FileEncrypted", "FilePreferEncrypted",
                                     "LocalStorageEncrypted", "LocalStoragePreferEncrypted"}
           THEN out.status = "returned" /\ formatOf(out.payload) = "EncryptedString"
           ELSE IF ~present /\ intent \in {"LocalStorageDecrypted", "LocalStoragePreferEncrypted",
                                           "FileDecrypted", "FilePreferEncrypted"}
           THEN out.status = "returned" /\ formatOf(out.payload) = "DecryptedBareObject"
           ELSE IF ~present /\ intent = "SyncDecrypted"
           THEN out.status = "returned" /\ formatOf(out.payload) = "DecryptedBase64String"
           ELSE out.status = "threw" /\ out.payload = <<>>]_vars

\* an items key was encrypted for storage under the root key that is set,
\* no key having been passed
C18_Witness ==
  /\ lastEncryption.intent = "LocalStoragePreferEncrypted"
  /\ lastEncryption.key = NoEncKey
  /\ lastEncryption.result.status = "returned"
  /\ formatOf(lastEncryption.result.payload) = "EncryptedString"
  /\ lastEncryption.result.payload["content"].by.kind = "root"
  /\ "dirty" \in DOMAIN lastEncryption.result.payload

\* C19: encrypting a payload flagged errorDecrypting returns the payload
\* unchanged, for every intent and key: its content is never encrypted again.
C19_CorruptPayloadUnchanged ==
  [][(/\ Encrypts
      /\ "errorDecrypting" \in DOMAIN lastEncryption'.payload
      /\ lastEncryption'.payload["errorDecrypting"])
     => lastEncryption'.result = EncryptionReturned(lastEncryption'.payload)]_vars

\* a corrupt payload with a bare object as content came back as it was when
\* a key to encrypt it was at hand
C19_Witness ==
  /\ lastEncryption.result.status = "returned"
  /\ lastEncryption.key # NoEncKey
  /\ lastEncryption.intent = "Sync"
  /\ "errorDecrypting" \in DOMAIN lastEncryption.payload
  /\ lastEncryption.payload["errorDecrypting"]
  /\ formatOf(lastEncryption.payload) = "DecryptedBareObject"
  /\ lastEncryption.result.payload = lastEncryption.payload

ClientOnlyFields ==
  {"dirty", "dirtiedDate", "lastSyncBegan", "lastSyncEnd", "waitingForKey",
   "errorDecrypting", "errorDecryptingValueChanged", "dummy"}

\* C20: a payload produced for a server-bound intent (Sync or SyncDecrypted)
\* carries no client-only field, whatever the input payload carried.
C20_ServerPayloadHasNoClientFields ==
  [][(/\ Encrypts
      /\ lastEncryption'.intent \in {"Sync", "SyncDecrypted"}
      /\ lastEncryption'.result.status = "returned")
     => (DOMAIN lastEncryption'.result.payload) \cap ClientOnlyFields = {}]_vars

EncNext ==
  \/ \E payload \in MaxPayloads, intent \in EncryptionIntents, key \in KeyArguments :
       PayloadByEncryptingPayload(payload, intent, key)
  \/ SetNewRootKey(1, 1, NoKey)
  \/ \E uuid \in ItemsKeyUuids : \E payload \in ItemsKeyPayloads :
       ~payload.dirty /\ EmitPayload(uuid, payload)

\* payloads encrypted under the root key and the items keys the client holds
EncSpec == Init /\ [][EncNext]_vars

(***************************************************************************)
(* Properties of payload decryption (DecSpec)                              *)
(***************************************************************************)
\* the step is a call of payloadsByDecryptingPayloads
Decrypts == lastDecryption' # lastDecryption

\* an encrypted payload of a content type that items keys encrypt, decrypted
\* without a key passed in
LooksUpItemsKey(payload, key) ==
  /\ payload # NullPayload
  /\ formatOf(payload) = "EncryptedString"
  /\ ~contentTypeUsesRootKeyEncryption(payload["content_type"])
  /\ key = NoEncKey

\* the items key of the collection with the uuid the payload names, if any
NamedItemsKey(payload) ==
  IF \E u \in DOMAIN items :
       u \in AllItemsKeyUuids /\ ~items[u].deleted /\ ItemsEncKey(u) = payload["items_key_id"]
  THEN payload["items_key_id"]
  ELSE NoEncKey

\* the first items key of the collection of the payload's version, if any
ItemsKeyOfVersion(payload) ==
  LET found == {u \in DOMAIN items :
                  /\ u \in AllItemsKeyUuids
                  /\ ~items[u].deleted
                  /\ items[u].version = versionOf(payload)}
  IN IF found = {} THEN NoEncKey
     ELSE ItemsEncKey(CHOOSE u \in found : \A w \in found : u <= w)

\* the payload comes back as the operator returns it under the key
DecryptedUnder(payload, key, out) ==
  IF payload["content"].by = key
  THEN /\ formatOf(out) = "DecryptedBareObject"
       /\ ~flagged(out, "errorDecrypting")
  ELSE /\ out["content"] = payload["content"]
       /\ flagged(out, "errorDecrypting")

PassedThrough(payload) ==
  \/ payload = NullPayload
  \/ "content" \notin DOMAIN payload
  \/ payload["content"].format = "DecryptedBareObject"

\* decrypting the payload throws: no key is passed in, and the payload is an
\* encrypted string of the latest version, of a content type that items keys
\* encrypt, that names no items key
DecryptionThrows(payload, key) ==
  /\ LooksUpItemsKey(payload, key)
  /\ "items_key_id" \notin DOMAIN payload
  /\ versionOf(payload) = LatestVersion

\* C22: batch decryption never aborts: payloadsByDecryptingPayloads returns a
\* list of the length and in the order of its input; a payload whose
\* decryption throws comes back with errorDecrypting = true, with
\* errorDecryptingValueChanged = true exactly when the flag flipped, and with
\* every other field, its content among them, as it was; deleted payloads
\* without content and payloads whose content is not a string come back as
\* they went in.
C22_BatchDecryptionNeverAborts ==
  [][Decrypts =>
       /\ Len(lastDecryption'.result) = Len(lastDecryption'.payloads)
       /\ \A i \in 1..Len(lastDecryption'.payloads) :
            LET payload == lastDecryption'.payloads[i]
                out == lastDecryption'.result[i]
            IN IF PassedThrough(payload) THEN out = payload
               ELSE /\ out["uuid"] = payload["uuid"]
                    /\ DecryptionThrows(payload, lastDecryption'.key)
                       => /\ flagged(out, "errorDecrypting")
                          /\ flagged(out, "errorDecryptingValueChanged")
                               = ~flagged(payload, "errorDecrypting")
                          /\ out["content"] = payload["content"]
                          /\ \A f \in DOMAIN payload \ {"errorDecrypting"} :
                               out[f] = payload[f]]_vars

\* the first payload of a batch of two threw and came back flagged, and the
\* second one was decrypted
C22_Witness ==
  /\ Len(lastDecryption.payloads) = MaxBatchLen
  /\ DecryptionThrows(lastDecryption.payloads[1], lastDecryption.key)
  /\ ~flagged(lastDecryption.payloads[1], "errorDecrypting")
  /\ flagged(lastDecryption.result[1], "errorDecrypting")
  /\ flagged(lastDecryption.result[1], "errorDecryptingValueChanged")
  /\ formatOf(lastDecryption.result[1]) = "EncryptedString"
  /\ formatOf(lastDecryption.result[MaxBatchLen]) = "DecryptedBareObject"

\* no key is found for the payload: it names an items key the collection
\* does not hold, or names none and the collection holds no items key of its
\* version, or it is encrypted by the root key and there is none in memory
NoKeyFound(payload, key) ==
  /\ payload # NullPayload
  /\ formatOf(payload) = "EncryptedString"
  /\ key = NoEncKey
  /\ IF contentTypeUsesRootKeyEncryption(payload["content_type"])
     THEN rootKey = NoKey
     ELSE IF "items_key_id" \in DOMAIN payload
     THEN NamedItemsKey(payload) = NoEncKey
     ELSE /\ versionOf(payload) # LatestVersion
          /\ ItemsKeyOfVersion(payload) = NoEncKey

DecNext ==
  \/ \E payloads \in Batches(MaxBatchLen), key \in {NoEncKey, RootEncKey(MaxKey)} :
       /\ key # NoEncKey => Len(payloads) = 1
       /\ PayloadsByDecryptingPayloads(payloads, key)
  \/ SetNewRootKey(MaxKey, MaxKey, NoKey)
  \/ \E uuid \in StoredItemsKeyUuids : \E payload \in VersionedItemsKeyPayloads :
       /\ ~payload.dirty /\ ~payload.neverSynced /\ payload.isDefault
       /\ EmitPayload(uuid, payload)

\* batches decrypted under the root key and the items keys the client holds
DecSpec == Init /\ [][DecNext]_vars

(***************************************************************************)
(* Properties of errored items (RetrySpec)                                 *)
(***************************************************************************)
\* the note is in the collection with the content, undecrypted and flagged
ErroredWith(u, content) ==
  /\ u \in DOMAIN items
  /\ items[u].errorDecrypting
  /\ "content" \in DOMAIN items[u]
  /\ items[u]["content"] = content

\* the collection holds the items key the note names, and that key made the
\* note's content
NeededKeyHeld(u) ==
  /\ "items_key_id" \in DOMAIN items[u]
  /\ items[u]["items_key_id"] = items[u]["content"].by
  /\ \E k \in itemsKeys(items) : ItemsEncKey(k) = items[u]["items_key_id"]

\* the note is decrypted and its flags are cleared
Redecrypted(u) ==
  /\ u \in DOMAIN items
  /\ formatOf(items[u]) = "DecryptedBareObject"
  /\ ~items[u].errorDecrypting
  /\ ~flagged(items[u], "waitingForKey")

\* the server has sent the note again, with another content or naming
\* another items key
Replaced(u, content) ==
  /\ u \in DOMAIN items
  /\ formatOf(items[u]) = "EncryptedString"
  /\ \/ items[u]["content"] # content
     \/ items[u]["items_key_id"] # content.by

EncryptedContents == {EncryptedContent(LatestVersion, by) : by \in StoredKeyIds}

\* C24: an item that could not be decrypted stays in the collection (no
\* step takes an errored item out of it), and once the items key it needs
\* is in the collection the item is eventually decrypted again: its content
\* is decrypted and its waitingForKey and errorDecrypting flags are cleared
\* (unless the server sends the item again first, with another content or
\* naming another key).
C24_ErroredItemsAreRetried ==
  /\ [][\A u \in Notes :
         (u \in DOMAIN items /\ items[u].errorDecrypting) => u \in DOMAIN items']_vars
  /\ \A u \in Notes : \A content \in EncryptedContents :
       (ErroredWith(u, content) /\ NeededKeyHeld(u))
         ~> (Redecrypted(u) \/ Replaced(u, content))

\* a note that waited for its key is decrypted, the key being in the
\* collection and the observer having run
C24_Witness ==
  /\ \E u \in Notes :
       /\ Redecrypted(u)
       /\ "waitingForKey" \in DOMAIN items[u]
       /\ "errorDecryptingValueChanged" \in DOMAIN items[u]
       /\ items[u]["errorDecryptingValueChanged"]
  /\ ~observerPending

RetryNext ==
  \/ \E payload \in RetrievedPayloads : MapRetrievedPayload(payload)
  \/ \E uuid \in StoredItemsKeyUuids : \E payload \in VersionedItemsKeyPayloads :
       /\ ~payload.dirty /\ ~payload.neverSynced /\ payload.isDefault
       /\ payload.version = LatestVersion
       /\ MapItemsKey(uuid, payload)
  \/ DecryptErroredItems

\* the step of the mapping observer: the one step that ends a notification
ObserverRuns == observerPending /\ observerPending' = FALSE

\* notes retrieved before and after their items keys; the observer, an async
\* callback the mapping awaits, runs once it has been notified
RetrySpec == Init /\ [][RetryNext]_vars /\ WF_observerPending(ObserverRuns)

\* C37: a retry of undecryptable items that an items-key emission triggers
\* terminates: when the retried items remain undecryptable, an undecryptable
\* items key among them, their re-emission does not trigger further retries
\* without bound; the observer that has been notified comes to rest.
C37_RetriesTerminate == observerPending ~> ~observerPending

\* the step of the mapping observer, enabled whenever it has been notified:
\* the one step that counts a run
ObserverStarts == observerPending /\ observerRan' = ~observerRan

RetryLoopNext ==
  \/ \E payload \in RetrievedPayloads :
       /\ payload["enc_item_key"] = payload["items_key_id"]
       /\ MapRetrievedPayload(payload)
  \/ \E payload \in RetrievedItemsKeyPayloads : MapRetrievedItemsKey(payload)
  \/ SetNewRootKey(MaxKey, MaxKey, NoKey)
  \/ DecryptErroredItems

\* notes and items keys retrieved with and without the root key that made
\* the items keys; the observer, an async callback the mapping awaits, runs
\* whenever it has been notified
RetryLoopSpec == Init /\ [][RetryLoopNext]_vars /\ WF_observerRan(ObserverStarts)

(***************************************************************************)
(* Properties of the application (AppSpec)                                 *)
(***************************************************************************)
\* the key state as the next launch finds it: storage and keychain as they
\* are, no root key in memory
Persisted(keys) == [keys EXCEPT !.rootKey = NoKey]

\* C13: adding a passcode while in RootKeyOnly ends with the keychain empty,
\* storage holding a wrapped root key that the wrapping key derived from the
\* passcode and the wrapper key params decrypts to the original root key, and
\* every items key dirty
C13_AddPasscodeToAccount ==
  [][(keyMode = "RootKeyOnly" /\ keyMode' = "RootKeyPlusWrapper")
     => /\ keychain' = NoKey
        /\ wrappedRootKey' # NoWrapped
        /\ unwrapRootKey(Persisted(CurrentKeys'),
                         computeWrappingKey(wrapperKeyParams')).state.rootKey = rootKey
        /\ \A u \in itemsKeys(items') : items'[u].dirty]_vars

\* C15: after signOut, from any key mode, no root key is in memory, the
\* keychain is cleared, the key mode is RootKeyNone, the wrapped root key, the
\* wrapper key params and the account key params are removed, and no storage
\* value, in memory or on the device, and no persisted payload remains
C15_SignOutClearsEverything ==
  [][SignOut
     => /\ rootKey' = NoKey
        /\ keychain' = NoKey
        /\ keyMode' = "RootKeyNone"
        /\ wrappedRootKey' = NoWrapped
        /\ wrapperKeyParams' = NoKey
        /\ accountKeyParams' = NoKey
        /\ storageValues' = {}
        /\ diskValues' = {}
        /\ dbPayloads' = {}]_vars

\* signOut has run in a session that persists its values
C15_Witness ==
  /\ lastAppOp.name = "signOut"
  /\ appOp = Idle
  /\ persistencePolicy = "Default"
  /\ keyMode = "RootKeyNone"
  /\ storageValues = {}

\* the step is the cancellation of a challenge
CancelsChallenge ==
  \/ ChallengeResponse(NoKey)
  \/ \E completes \in BOOLEAN : UpgradeChallengeResponse(NoKey, completes)

\* C16: a cancelled challenge of register, signIn, changePassword or
\* upgradeProtocolVersion ends the operation with the state as it was: the
\* session manager is not called, syncing is not locked by it, no sync is
\* requested, and key mode, root key, keychain and persisted key values, the
\* collection and storage are unchanged
C16_CancelledChallengeLeavesState ==
  [][CancelsChallenge
     => /\ appOp' = Idle
        /\ "session" \notin lastAppOp'.calls
        /\ UNCHANGED <<syncLocked, syncBegun, syncToken>>
        /\ UNCHANGED KeyStorage
        /\ UNCHANGED <<items, storageValues, diskValues, dbPayloads, persistencePolicy>>]_vars

\* a challenge was cancelled on a device with passcode and account
C16_Witness ==
  /\ lastAppOp.outcome = "canceled"
  /\ appOp = Idle
  /\ keyMode = "RootKeyPlusWrapper"
  /\ ~syncLocked

\* C17: no sync starts while syncing is locked by register, signIn or
\* changePassword; and when the operation unlocks syncing after the session
\* manager answered without error, the root key of the response is set and,
\* in register and signIn, no sync token is held and every local item is
\* dirty, and the follow-up sync is requested with that step
C17_NoSyncWhileLocked ==
  [][/\ syncBegun' # syncBegun => ~(syncLocked /\ syncLocked')
     /\ (syncLocked /\ ~syncLocked' /\ appOp.name \in AccountOps
           /\ lastAppOp'.outcome = "ok")
        => /\ appOp.key # NoKey
           /\ rootKey = appOp.key
           /\ appOp.name \in {"register", "signIn"}
                => (~syncToken /\ \A u \in DOMAIN items : items[u].dirty)
           /\ syncBegun' # syncBegun]_vars

\* signIn has merged a local item and its follow-up sync was requested while
\* the auto-sync timer runs
C17_Witness ==
  /\ lastAppOp = [name |-> "signIn", outcome |-> "ok", calls |-> {"sync", "session"}]
  /\ appOp = Idle
  /\ ~syncLocked
  /\ syncToken
  /\ items # <<>>

AppNext ==
  \/ ~storagePersistable /\ HandleApplicationStage
  \/ \E key \in ValueKeys : storagePersistable /\ SetValue(key)
  \/ \E passcode \in Keys, completes \in BOOLEAN :
       storagePersistable /\ SetPasscode(passcode, completes)
  \/ storagePersistable /\ RemovePasscode
  \/ storagePersistable /\ SignOut
  \/ \E completes \in BOOLEAN : storagePersistable /\ AutoSync(completes)
  \/ \E ephemeral \in BOOLEAN, mergeLocal \in BOOLEAN :
       storagePersistable /\ Register(ephemeral, mergeLocal)
  \/ \E ephemeral \in BOOLEAN, mergeLocal \in BOOLEAN :
       storagePersistable /\ SignIn(ephemeral, mergeLocal)
  \/ \E passcode \in Keys \cup {NoKey} : storagePersistable /\ ChangePassword(passcode)
  \/ storagePersistable /\ UpgradeProtocolVersion
  \/ \E passcode \in Keys \cup {NoKey} : ChallengeResponse(passcode)
  \/ \E passcode \in Keys \cup {NoKey}, completes \in BOOLEAN :
       UpgradeChallengeResponse(passcode, completes)
  \/ \E error \in BOOLEAN, key \in Keys, keyParams \in Keys :
       SessionResponse(error, key, keyParams)
  \/ MergeLocalData
  \/ CreateNewDefaultItemsKey
  \/ \E completes \in BOOLEAN : UnlockAndSync(completes)

\* the application is launched and then driven through its passcode and
\* account operations with the auto-sync timer running
AppSpec == Init /\ [][AppNext]_vars

(***************************************************************************)
(* Properties of backup import (ImportSpec)                                *)
(***************************************************************************)
\* the step is a call of importData that returns
ImportReturns == lastImport' # lastImport

\* item i of the backup fails to decrypt: the file has key params and the
\* item is an encrypted string that the key computed from the password did
\* not make
FailsToDecrypt(data, password, i) ==
  /\ data.keyParams # NoKey
  /\ formatOf(data.items[i]) = "EncryptedString"
  /\ data.items[i]["content"].by # computeRootKey(password, data.keyParams)

FailedItems(r) == {i \in 1..Len(r.data.items) : FailsToDecrypt(r.data, r.password, i)}

RemainingItems(r) == {r.data.items[i]["uuid"] : i \in (1..Len(r.data.items)) \ FailedItems(r)}

\* C25: importData returns, whatever items of the backup fail to decrypt:
\* errorCount is the number of the items that failed, the affected items
\* are exactly the remaining items, these are in the collection and the
\* failed ones are not added to it, and the sync that follows uploads them
\* (next to what was waiting for upload before the import).
C25_ImportSkipsUndecryptable ==
  [][ImportReturns =>
       /\ lastImport'.errorCount = Cardinality(FailedItems(lastImport'))
       /\ Len(lastImport'.affectedItems) =
            Len(lastImport'.data.items) - lastImport'.errorCount
       /\ {lastImport'.affectedItems[i] : i \in 1..Len(lastImport'.affectedItems)} =
            RemainingItems(lastImport')
       /\ RemainingItems(lastImport') \subseteq DOMAIN items'
       /\ \A u \in Uuids : (u \in DOMAIN items' /\ u \notin DOMAIN items)
                              => u \in RemainingItems(lastImport')
       /\ lastImport'.synced =>
            /\ lastImport'.uploaded = RemainingItems(lastImport') \cup getDirtyItems(items)
            /\ \A u \in RemainingItems(lastImport') : ~items'[u].dirty
       /\ ~lastImport'.synced => \A u \in RemainingItems(lastImport') : items'[u].dirty]_vars

\* a backup of the largest size with one item that failed was imported into
\* a collection with nothing to upload: the others are affected and uploaded
C25_Witness ==
  /\ Len(lastImport.data.items) = MaxBackupLen
  /\ lastImport.errorCount = 1
  /\ Len(lastImport.affectedItems) = MaxBackupLen - 1
  /\ lastImport.synced
  /\ Cardinality(lastImport.uploaded) = MaxBackupLen - 1

ImportNext ==
  \/ \E data \in BackupFiles, password \in Keys, completes \in BOOLEAN :
       ImportData(data, password, completes)
  \/ \E uuid \in Uuids : SetItemDirty(uuid)

ImportSpec == Init /\ [][ImportNext]_vars

(***************************************************************************)
(* Properties of the items keys under sync events (SyncSpec)               *)
(***************************************************************************)
\* the items keys flagged default that are not deleted
DefaultItemsKeys(its) == {u \in itemsKeys(its) : its[u].isDefault}

\* the step creates items key u
Created(u) == u \notin DOMAIN items /\ u \in DOMAIN items' /\ items'[u].neverSynced

\* C26: at most one items key that is not deleted is flagged default, after
\* any sequence of createNewDefaultItemsKey calls, download-first and
\* full-sync completions and password changes; a step that creates an items
\* key leaves it the only default, flagged and dirty, and leaves the default
\* it found un-flagged and dirty.
C26_OneDefaultItemsKey ==
  /\ [](Cardinality(DefaultItemsKeys(items)) <= 1)
  /\ [][\A u \in AllItemsKeyUuids :
          Created(u) =>
            /\ items'[u].isDefault /\ items'[u].dirty
            /\ DefaultItemsKeys(items') = {u}
            /\ getDefaultItemsKey(items) # NoEncKey =>
                 /\ getDefaultItemsKey(items).id \in DOMAIN items'
                 /\ ~items'[getDefaultItemsKey(items).id].isDefault
                 /\ items'[getDefaultItemsKey(items).id].dirty]_vars

\* a key was created next to a key that was the default: the new one is the
\* default, both are dirty
C26_Witness ==
  \E u \in AllItemsKeyUuids, v \in AllItemsKeyUuids :
    /\ u # v /\ {u, v} \subseteq itemsKeys(items)
    /\ items[u].isDefault /\ items[u].dirty /\ items[u].neverSynced
    /\ ~items[v].isDefault /\ items[v].dirty /\ ~items[v].neverSynced

\* the step is the handling of a sync event
Handles(eventName) ==
  lastSyncEvent'.n # lastSyncEvent.n /\ lastSyncEvent'.eventName = eventName

SyncedDefaultFound(ev) ==
  \E u \in DOMAIN ev.found : ~ev.found[u].neverSynced /\ ev.found[u].isDefault

NeverSyncedFound(ev) == {u \in DOMAIN ev.found : ev.found[u].neverSynced}

\* C27: on download-first completion, with a synced default items key all
\* items keys never synced are deleted; otherwise (with a root key) exactly
\* the never-synced items keys of the root key's version are kept, and a new
\* default items key is created if no items key remains.
C27_DownloadFirstReconciles ==
  [][Handles("DownloadFirstSyncCompleted") =>
       IF SyncedDefaultFound(lastSyncEvent')
       THEN NeverSyncedFound(lastSyncEvent') \cap itemsKeys(items') = {}
       ELSE lastSyncEvent'.rootKey # NoKey =>
              /\ \A u \in NeverSyncedFound(lastSyncEvent') :
                   u \in itemsKeys(items')
                     <=> lastSyncEvent'.found[u].version
                           = versionOfKey(lastSyncEvent'.rootKey)
              /\ (DOMAIN lastSyncEvent'.found) \cap itemsKeys(items') = {}
                   => DefaultItemsKeys(items') # {}]_vars

\* C28: after the handling of FullSyncCompleted a default items key exists;
\* when none was found, so that it had to be created, and the key mode is
\* WrapperOnly, every item of the collection is persisted again (unless the
\* session is ephemeral).
C28_FullSyncLeavesDefaultItemsKey ==
  [][Handles("FullSyncCompleted") =>
       /\ getDefaultItemsKey(items') # NoEncKey
       /\ (/\ getDefaultItemsKey(lastSyncEvent'.found) = NoEncKey
           /\ keyMode' = "WrapperOnly"
           /\ persistencePolicy' # "Ephemeral")
            => DOMAIN items' \subseteq dbPayloads']_vars

\* a full sync in key mode WrapperOnly found no items key and a note that
\* was never persisted: a default items key was created and both are
\* persisted
C28_Witness ==
  /\ lastSyncEvent.eventName = "FullSyncCompleted"
  /\ getDefaultItemsKey(lastSyncEvent.found) = NoEncKey
  /\ keyMode = "WrapperOnly"
  /\ getDefaultItemsKey(items) # NoEncKey
  /\ MaxNote \in DOMAIN items /\ MaxNote \in dbPayloads
  /\ DOMAIN items \subseteq dbPayloads

\* the step ends a changePassword that succeeded
PasswordChanged ==
  appOp.name = "changePassword" /\ appOp.pc = "merged" /\ appOp' = Idle

\* C29: a newly created default items key has the version of the current
\* root key, the latest version when there is no root key; after a
\* successful changePassword the account key params, the root key in memory
\* and the default items key are of the latest version.
C29_ItemsKeyVersion ==
  [][/\ \A u \in AllItemsKeyUuids :
          Created(u) =>
            items'[u].version = IF rootKey' # NoKey THEN versionOfKey(rootKey')
                                ELSE LatestVersion
     /\ PasswordChanged =>
          /\ versionOfKey(accountKeyParams') = LatestVersion
          /\ rootKey' # NoKey /\ versionOfKey(rootKey') = LatestVersion
          /\ getDefaultItemsKey(items') # NoEncKey
          /\ items'[getDefaultItemsKey(items').id].version = LatestVersion]_vars

\* the password of an account of the older version was changed: its items
\* key of the older version is still held, and the root key, the key params
\* and the default items key are of the latest version
C29_Witness ==
  /\ lastAppOp.name = "changePassword" /\ lastAppOp.outcome = "ok"
  /\ appOp = Idle
  /\ rootKey # NoKey /\ versionOfKey(rootKey) = LatestVersion
  /\ versionOfKey(accountKeyParams) = LatestVersion
  /\ \E u \in itemsKeys(items) :
       items[u].version = LAST_NONROOT_ITEMS_KEY_VERSION /\ ~items[u].isDefault
  /\ getDefaultItemsKey(items) # NoEncKey
  /\ items[getDefaultItemsKey(items).id].version = LatestVersion

SyncNext ==
  \/ \E key \in Keys : appOp = Idle /\ SetNewRootKey(key, key, NoKey)
  \/ appOp = Idle /\ ~hasPasscode(CurrentKeys) /\ SetNewRootKeyWrapper(MaxKey, MaxKey)
  \/ /\ appOp = Idle /\ MaxNote \notin DOMAIN items
     /\ EmitPayload(MaxNote, MakePayload(<<>>, FALSE, FALSE, FALSE, FALSE))
  \/ CallCreateNewDefaultItemsKey
  \/ \E serverKeys \in ServerItemsKeys : DownloadFirstSyncCompleted(serverKeys)
  \/ FullSyncCompleted
  \/ ChangePassword(IF hasPasscode(CurrentKeys) THEN MaxKey ELSE NoKey)
  \/ \E key \in Keys : SessionResponse(FALSE, key, key)
  \/ CreateNewDefaultItemsKey
  \/ UnlockAndSync(FALSE)

\* the protocol service handling sync events, with the key operations and
\* the password changes that change the root key in between
SyncSpec == Init /\ [][SyncNext]_vars

(***************************************************************************)
(* Properties of storage persistence (StorageSpec)                         *)
(***************************************************************************)
\* the storage service has handled the Launched stage
LaunchedHandled == \E i \in 1..stagesHandled : ApplicationStages[i] = "Launched_10"

\* C30: before the storage service has handled the Launched stage no step,
\* and so no call of setValue, removeValue or clear, writes the storage
\* values to disk.
C30_NoPersistenceBeforeLaunched ==
  [][~LaunchedHandled => diskValues' = diskValues]_vars

\* setValue was called before the Launched stage: the value is held in
\* memory and not on disk
C30_Witness ==
  /\ ~LaunchedHandled
  /\ lastAppOp.name = "setValue"
  /\ storageValues # {}
  /\ diskValues = {}

\* C35: whenever a key is available for storage encryption, the storage
\* object written to the device holds the default-mode values in encrypted
\* form only: the plaintext unwrapped domain is not part of it.
C35_PersistedValuesEncryptedOnly ==
  (/\ rawStorageValue # NoRawValue
   /\ formatOf(rawStorageValue.wrapped.payload) = "EncryptedString")
    => rawStorageValue.unwrapped = {}

StorageNext ==
  \/ HandleApplicationStage
  \/ \E key \in ValueKeys : SetValue(key)
  \/ \E key \in ValueKeys : RemoveValue(key)
  \/ Clear
  \/ \E passcode \in Keys : SetPasscode(passcode, FALSE)
  \/ RemovePasscode

\* the storage service across the launch of the application, with the
\* values of the application and of the key manager written to it
StorageSpec == Init /\ [][StorageNext]_vars


(***************************************************************************)
(* Properties of the launch and the teardown (LifecycleSpec)               *)
(***************************************************************************)
\* the step is the continuation of a database load that the teardown overtook
LoadEndsAfterDeinit == launchPc = "loading" /\ dealloced /\ launchPc' = "ended"

Delivered(stage) == stagesHandled >= StageIndex(stage)

\* C31: when the application is torn down (deinit) while the database load
\* is in progress, the continuation of the load aborts quietly: the
\* LoadedDatabase stage is not delivered, the auto-sync timer is not started,
\* no sync is started, and no error is surfaced to the caller of launch.
C31_TeardownDuringLoadAbortsQuietly ==
  [][LoadEndsAfterDeinit
     => (/\ ~Delivered("LoadedDatabase_12")'
         /\ ~autoSyncInterval'
         /\ syncBegun' = syncBegun
         /\ launchResult' # "throw")]_vars

\* the step is a launch challenge response that fails to unwrap the root key
UnwrapFails ==
  /\ launchPc = "challenge"
  /\ launchPc' = "ended"
  /\ lastKeyOp' = <<"unwrapRootKey", "throw">>

\* C38: whenever the application reports launched = true and a passcode
\* wrapper is configured, the root key has been unwrapped and storage has
\* been decrypted; a launch whose passcode response fails to unwrap the root
\* key never sets launched and never delivers the StorageDecrypted or the
\* Launched stage. The root key unwrapped is the wrapping key of the wrapper
\* key params in WrapperOnly and the stored root key in RootKeyPlusWrapper.
C38_LaunchedMeansUnlocked ==
  /\ [](launched /\ ~dealloced /\ hasPasscode(CurrentKeys)
          => /\ rootKey # NoKey
             /\ keyMode = "WrapperOnly" => rootKey = wrapperKeyParams
             /\ keyMode = "RootKeyPlusWrapper" => rootKey = wrappedRootKey.key
             /\ ~isStorageWrapped(valuesWrapped))
  /\ [][UnwrapFails
        => /\ launchResult' = "throw"
           /\ ~launched'
           /\ ~Delivered("StorageDecrypted_09")'
           /\ ~Delivered("Launched_10")']_vars

\* an application with an account and a passcode has launched: the passcode
\* unwrapped the stored root key and storage was decrypted with it
C38_Witness ==
  /\ launched
  /\ ~dealloced
  /\ keyMode = "RootKeyPlusWrapper"
  /\ lastKeyOp = <<"unwrapRootKey", "ok">>
  /\ rootKey = wrappedRootKey.key
  /\ Delivered("Launched_10")
  /\ ~isStorageWrapped(valuesWrapped)

LifecycleNext ==
  \/ PrepareForLaunch
  \/ \E await \in BOOLEAN : Launch(await)
  \/ \E passcode \in Keys \cup {NoKey} : HandleLaunchChallengeResponse(passcode)
  \/ \E completes \in BOOLEAN : LoadDatabasePayloadsEnds(completes)
  \/ appOp = Idle /\ Deinit
  \/ NewApplication
  \/ \E passcode \in Keys : launched /\ ~dealloced /\ SetPasscode(passcode, FALSE)
  \/ \E key \in ValueKeys : launched /\ ~dealloced /\ SetValue(key)
  \/ launched /\ ~dealloced /\ Register(FALSE, TRUE)
  \/ \E passcode \in Keys \cup {NoKey} : ChallengeResponse(passcode)
  \/ \E key \in Keys : SessionResponse(FALSE, key, key)
  \/ MergeLocalData
  \/ UnlockAndSync(FALSE)

\* the application from its construction through prepareForLaunch and launch
\* to its release, with a passcode and storage values set once it has launched
LifecycleSpec == Init /\ [][LifecycleNext]_vars


(***************************************************************************)
(* Properties of the observers of the collection (ObserverSpec)            *)
(***************************************************************************)
\* C32: payload emissions are processed in submission order and observers
\* are invoked in registration order: for any two emissions, one submitted
\* after the other, every observer has been notified of the first before any
\* observer is notified of the second, and each emission reaches the
\* observers in the order they were registered.
C32_ObserversNotifiedInOrder ==
  \A j \in DOMAIN notified :
    /\ \A i \in 1..(j - 1) :
         \/ notified[i][1] < notified[j][1]
         \/ notified[i][1] = notified[j][1] /\ notified[i][2] < notified[j][2]
    /\ \A emission \in 1..(notified[j][1] - 1) : \A observer \in Observers :
         \E i \in 1..(j - 1) : notified[i] = <<emission, observer>>

\* the payloads emitted to the observers: an item, changed or not, and its
\* tombstone once the deletion has been synced
ObservedPayloads ==
  {MakePayload(<<>>, deleted, dirty, FALSE, FALSE) : deleted \in BOOLEAN, dirty \in BOOLEAN}

ObserverNext ==
  \/ \E uuid \in Notes : \E payload \in ObservedPayloads : EmitToObservers(uuid, payload)
  \/ \E emission \in 1..MaxEmission : ObserverReturns(emission)

\* payloads are emitted one after the other to an item manager with observers
\* whose callbacks return when they will
ObserverSpec == Init /\ [][ObserverNext]_vars


(***************************************************************************)
(* Properties of UUID alternation (AlternationSpec)                        *)
(***************************************************************************)
\* C34: UUID alternation preserves all inverse relationships: every item R
\* that referenced A before the alternation references the new uuid A'
\* afterwards, does not reference A, and is dirty; the old item A is deleted
\* and dirty.
C34_AlternationKeepsInverseRelationships ==
  [][lastAlternation'.n # lastAlternation.n
     => /\ \A r \in lastAlternation'.referencing :
             /\ r \in DOMAIN items'
             /\ Contains(items'[r].references, lastAlternation'.new)
             /\ ~Contains(items'[r].references, lastAlternation'.old)
             /\ items'[r].dirty
        /\ lastAlternation'.old \in DOMAIN items'
        /\ items'[lastAlternation'.old].deleted
        /\ items'[lastAlternation'.old].dirty]_vars

\* an item that some item referenced has had its uuid alternated
C34_Witness ==
  /\ lastAlternation.referencing # {}
  /\ \A r \in lastAlternation.referencing :
       r \in DOMAIN items /\ Contains(items[r].references, lastAlternation.new)

\* the payloads that reach the collection before an alternation: decrypted
\* items, tombstones, and items that failed to decrypt, whose content is the
\* encrypted string and holds no reference
AlternationPayloads(uuid) ==
  RefPayloads(uuid) \cup {MakePayload(<<>>, FALSE, FALSE, FALSE, TRUE)}

AlternationNext ==
  \/ \E uuid \in Uuids : \E payload \in AlternationPayloads(uuid) : EmitPayload(uuid, payload)
  \/ \E uuid \in Uuids : \E newUuid \in Uuids : AlternateUuidForItem(uuid, newUuid)

\* items are mapped into the collection and their uuids are alternated
AlternationSpec == Init /\ [][AlternationNext]_vars


(***************************************************************************)
(* Properties of backup files (BackupSpec)                                 *)
(***************************************************************************)
\* root key params exist: wrapper key params with a passcode only, account
\* key params with an account
rootKeyParamsExist(keys) ==
  \/ keys.keyMode = "WrapperOnly" /\ keys.wrapperKeyParams # NoKey
  \/ keys.keyMode \in {"RootKeyOnly", "RootKeyPlusWrapper"} /\ keys.accountKeyParams # NoKey

\* C36: createBackupFile succeeds in every key mode, including None (no
\* account and no passcode): for an intent that does not require a key the
\* call returns, its result holds the items, and it includes keyParams
\* exactly when root key params exist and the intent is not FileDecrypted.
C36_BackupInEveryKeyMode ==
  [][(/\ lastBackup'.n # lastBackup.n
      /\ lastBackup'.intent \in {"FilePreferEncrypted", "FileDecrypted"}
      /\ ~(lastBackup'.returnIfEmpty /\ lastBackup'.subItems = {}))
     => /\ lastBackup'.file.status = "ok"
        /\ Len(lastBackup'.file.data.items) = Cardinality(lastBackup'.subItems)
        /\ (lastBackup'.file.data.keyParams # NoKey)
             <=> (rootKeyParamsExist(CurrentKeys)
                  /\ lastBackup'.intent # "FileDecrypted")]_vars

BackupNext ==
  \/ \E payload \in RetrievedPayloads :
       /\ payload["enc_item_key"] = payload["items_key_id"]
       /\ MapRetrievedPayload(payload)
  \/ \E uuid \in StoredItemsKeyUuids : \E payload \in VersionedItemsKeyPayloads :
       /\ \A other \in StoredItemsKeyUuids : uuid <= other
       /\ ~payload.dirty /\ ~payload.neverSynced /\ payload.isDefault
       /\ payload.version = LatestVersion
       /\ EmitPayload(uuid, payload)
  \/ SetNewRootKey(MaxKey, MaxKey, NoKey)
  \/ SetNewRootKeyWrapper(MaxKey, MaxKey)
  \/ \E subItems \in SUBSET Notes :
       \E intent \in {"FilePreferEncrypted", "FileDecrypted", "FileEncrypted"} :
         \E returnIfEmpty \in BOOLEAN : CreateBackupFile(subItems, intent, returnIfEmpty)

\* backups of the notes of the collection made in every key mode
BackupSpec == Init /\ [][BackupNext]_vars


(***************************************************************************)
(* Properties of the sync lock of the account operations (LockSpec)        *)
(***************************************************************************)
\* C39: every lockSyncing performed by register, signIn or changePassword is
\* eventually followed by unlockSyncing: on success, on an error response
\* from the session manager, and when setNewRootKey throws, syncing does not
\* stay locked.
C39_LockIsReleased == syncLocked ~> ~syncLocked

\* the account operation in flight comes to its end: the challenge is
\* answered, the session manager responds, the continuation runs until the
\* operation returns or throws
OperationEnds == appOp # Idle /\ appOp' = Idle

LockNext ==
  \/ \E mergeLocal \in BOOLEAN : Register(FALSE, mergeLocal)
  \/ \E mergeLocal \in BOOLEAN : SignIn(FALSE, mergeLocal)
  \/ \E passcode \in Keys \cup {NoKey} : ChangePassword(passcode)
  \/ \E passcode \in Keys \cup {NoKey} : ChallengeResponse(passcode)
  \/ \E error \in BOOLEAN, key \in Keys, keyParams \in Keys :
       SessionResponse(error, key, keyParams)
  \/ MergeLocalData
  \/ CreateNewDefaultItemsKey
  \/ \E completes \in BOOLEAN : UnlockAndSync(completes)
  \/ \E passcode \in Keys : SetPasscode(passcode, FALSE)
  \/ \E passcode \in Keys : SetPasscodeMeanwhile(passcode)

\* the account operations, with a passcode set before or while they run;
\* an operation that has started goes on until it returns or throws
LockSpec == Init /\ [][LockNext]_vars /\ WF_appOp(OperationEnds)


(***************************************************************************)
(* Properties of the key operations await by await (WrapperSpec)           *)
(***************************************************************************)
\* C40: at every point where another operation can interleave (every await
\* inside setNewRootKeyWrapper, removeRootKeyWrapper and clearLocalKeyState)
\* the passcode state in memory agrees with storage: hasPasscode() holds if
\* and only if root key wrapper key params are persisted.
C40_PasscodeStateAgreesWithStorage ==
  keyOp # NoKeyOp => (hasPasscode(CurrentKeys) <=> wrapperKeyParams # NoKey)

WrapperNext ==
  \/ \E wrappingKey \in Keys : KeyOpBegins("setNewRootKeyWrapper", wrappingKey, wrappingKey)
  \/ KeyOpBegins("removeRootKeyWrapper", NoKey, NoKey)
  \/ KeyOpBegins("clearLocalKeyState", NoKey, NoKey)
  \/ KeyOpContinues
  \/ \E key \in Keys, wrappingKey \in Keys \cup {NoKey} :
       keyOp = NoKeyOp /\ SetNewRootKey(key, key, wrappingKey)
  \/ \E uuid \in ItemsKeyUuids : \E payload \in ItemsKeyPayloads :
       keyOp = NoKeyOp /\ EmitPayload(uuid, payload)

\* the key manager with its wrapper operations observed at every await
WrapperSpec == Init /\ [][WrapperNext]_vars

====
